---- MODULE Spec2Model ----
(***************************************************************************)
(* Verification model of two subsystems of the repository:                 *)
(*   - the replicated data-part exchange (DataPartsExchange.cpp):          *)
(*       SpecSend   the sender's FetchPart handler, admission and exit     *)
(*       SpecFetch  the receiver's download of a part to disk, fed by the  *)
(*                  stream Service::sendPartFromDisk produces (or by a     *)
(*                  stream a malicious replica forges)                     *)
(*   - the eager aggregation rewrite (EagerAggregation.cpp):               *)
(*       SpecEager  EagerAggregation::transformImpl on bounded plans       *)
(* Every specification constrains all variables; the variables of the      *)
(* other subsystems stay at their idle values.                             *)
(***************************************************************************)
EXTENDS Integers, Sequences, FiniteSets, TLC

VARIABLES
    \* ---- Service::processQueryPart (sender) ----
    total_sends,              \* static std::atomic_uint total_sends
    current_table_sends,      \* data.current_table_sends, per table
    replicated_max_parallel_sends,
    replicated_max_parallel_sends_for_table,
    handler,                  \* per request thread: position and response
    \* ---- Fetcher::fetchPart (receiver) ----
    scenario,                 \* the parts held by the two replicas, the peer
    wire,                     \* the unread rest of the response stream (in)
    fetch,                    \* the locals of fetchPart / downloadPartToDisk
    disk,                     \* the receiver's disk
    blocker,                  \* blocker.isCancelled()
    \* ---- EagerAggregation::transformImpl ----
    query,                    \* the plan the rule is applied to, the settings
    rule,                     \* the locals of transformImpl
    context,                  \* the symbol allocator and the node id counter
    execution,                \* a run of the plan before and after the rewrite
    \* ---- one FetchPart exchange between two replicas ----
    exchange,                 \* the replicas, the request and response, fetchPart's locals
    \* ---- Fetcher::downloadPartToDisk / downloadPartToS3: the part directory ----
    materialize,              \* the arguments, the directory on disk, the position
    \* ---- canAggPushDown on its own: one candidate, one estimate ----
    gate,                     \* the arguments and the answer
    \* ---- the file frames of one part between sendPartFromDisk and downloadPartToDisk ----
    stream                    \* the part, both replicas' positions, the frames in flight

sendVars == <<total_sends, current_table_sends, replicated_max_parallel_sends,
              replicated_max_parallel_sends_for_table, handler>>

fetchVars == <<scenario, wire, fetch, disk, blocker>>

eagerVars == <<query, rule, context, execution>>

vars == <<sendVars, fetchVars, eagerVars, exchange, materialize, gate, stream>>

(***************************************************************************)
(* Generic helpers                                                         *)
(***************************************************************************)
Range(s) == {s[i] : i \in DOMAIN s}

(***************************************************************************)
(* Sender: Service::processQueryPart, admission control and exit paths     *)
(***************************************************************************)
NumRequests == 2      \* concurrent request threads
MaxCap == 1           \* the caps range over 0..MaxCap (0 = unlimited)

Requests == 1..NumRequests
Tables == {"t1", "t2"}
\* each request addresses the Service of one table
TableOf(r) == IF r <= 2 THEN "t1" ELSE "t2"

HTTP_TOO_MANY_REQUESTS == 429

\* what the try block of processQueryPart ends with
SendOutcomes == {"ok", "NetException", "NO_SUCH_DATA_PART", "ABORTED",
                 "CANNOT_WRITE_TO_OSTREAM", "OtherException", "NonException"}

\* the parameter incrementally of the request
Incrementally(r) == r % 2 = 1

\* part is what findPart has assigned: "null" when it threw, else the kind
\* of the part; report_target is the argument of data.reportBrokenPart
IdleHandler ==
    [pc |-> "idle", status |-> 0, retry_after |-> 0, cookie_version |-> FALSE,
     cookie_incrementally |-> FALSE, cookie_s3 |-> FALSE, body |-> FALSE,
     find_part |-> FALSE, part |-> "none", reported |-> FALSE,
     report_target |-> "none", rethrown |-> FALSE, outcome |-> "none"]

InitSend ==
    /\ total_sends = 0
    /\ current_table_sends = [t \in Tables |-> 0]
    /\ replicated_max_parallel_sends \in 0..MaxCap
    /\ replicated_max_parallel_sends_for_table \in 0..MaxCap
    /\ handler = [r \in Requests |-> IdleHandler]

IdleSend ==
    /\ total_sends = 0
    /\ current_table_sends = [t \in Tables |-> 0]
    /\ replicated_max_parallel_sends = 0
    /\ replicated_max_parallel_sends_for_table = 0
    /\ handler = [r \in Requests |-> IdleHandler]

SetHandler(r, h) ==
    /\ handler' = [handler EXCEPT ![r] = h]
    /\ UNCHANGED <<fetchVars, eagerVars, exchange, materialize, gate, stream>>

\* a FetchPart request reaches processQueryPart; MergeTreePartInfo::
\* fromPartName throws on a part name that is not well formed
Arrive(r) ==
    /\ handler[r].pc = "idle"
    /\ \E valid \in BOOLEAN :
          SetHandler(r, IF valid THEN [handler[r] EXCEPT !.pc = "checkGlobal"]
                        ELSE [handler[r] EXCEPT !.pc = "done", !.status = 500,
                                                !.outcome = "BAD_DATA_PART_NAME",
                                                !.rethrown = TRUE])
    /\ UNCHANGED <<total_sends, current_table_sends, replicated_max_parallel_sends,
                   replicated_max_parallel_sends_for_table>>

\* variant that adds the version cookie before the caps are looked at
C20_Mutant_Reject429(h) ==
    [h EXCEPT !.pc = "done", !.status = HTTP_TOO_MANY_REQUESTS, !.retry_after = 10,
              !.cookie_version = TRUE]

Reject429(h) ==
    [h EXCEPT !.pc = "done", !.status = HTTP_TOO_MANY_REQUESTS, !.retry_after = 10]

\* first operand of the || : reads total_sends
GlobalCapReached ==
    /\ replicated_max_parallel_sends # 0
    /\ total_sends >= replicated_max_parallel_sends

\* second operand of the || : reads data.current_table_sends
TableCapReached(t) ==
    /\ replicated_max_parallel_sends_for_table # 0
    /\ current_table_sends[t] >= replicated_max_parallel_sends_for_table

CheckGlobal(r) ==
    /\ handler[r].pc = "checkGlobal"
    /\ IF GlobalCapReached
         THEN SetHandler(r, Reject429(handler[r]))
         ELSE SetHandler(r, [handler[r] EXCEPT !.pc = "checkTable"])
    /\ UNCHANGED <<total_sends, current_table_sends, replicated_max_parallel_sends,
                   replicated_max_parallel_sends_for_table>>

CheckTable(r) ==
    /\ handler[r].pc = "checkTable"
    /\ IF TableCapReached(TableOf(r))
         THEN SetHandler(r, Reject429(handler[r]))
         ELSE SetHandler(r, [handler[r] EXCEPT !.pc = "incTotal", !.cookie_version = TRUE,
                                               !.cookie_incrementally = Incrementally(r)])
    /\ UNCHANGED <<total_sends, current_table_sends, replicated_max_parallel_sends,
                   replicated_max_parallel_sends_for_table>>

\* ++total_sends; SCOPE_EXIT({--total_sends;})
IncTotal(r) ==
    /\ handler[r].pc = "incTotal"
    /\ total_sends' = total_sends + 1
    /\ SetHandler(r, [handler[r] EXCEPT !.pc = "incTable"])
    /\ UNCHANGED <<current_table_sends, replicated_max_parallel_sends,
                   replicated_max_parallel_sends_for_table>>

\* ++data.current_table_sends; SCOPE_EXIT({--data.current_table_sends;})
IncTable(r) ==
    /\ handler[r].pc = "incTable"
    /\ current_table_sends' =
          [current_table_sends EXCEPT ![TableOf(r)] = current_table_sends[TableOf(r)] + 1]
    /\ SetHandler(r, [handler[r] EXCEPT !.pc = "sending"])
    /\ UNCHANGED <<total_sends, replicated_max_parallel_sends,
                   replicated_max_parallel_sends_for_table>>

\* variant that spares only the network exceptions
C16_Mutant_ReportsBrokenPart(outcome) ==
    outcome \in {"NO_SUCH_DATA_PART", "ABORTED", "OtherException", "NonException"}

\* the catch clauses: which outcomes call report_broken_part()
ReportsBrokenPart(outcome) ==
    outcome \in {"NO_SUCH_DATA_PART", "OtherException", "NonException"}

\* the lambda report_broken_part: the name it hands to reportBrokenPart
ReportTarget(part) == IF part = "projection" THEN "parent" ELSE "part_name"

\* the runs of the try block: findPart throws NO_SUCH_DATA_PART and leaves
\* part null, or it finds a part, the header is written, and the part is
\* streamed, or the send_s3_metadata cookie is set and sendPartS3Metadata
\* runs, to the end or to an exception
SendResults ==
    {[part |-> "null", s3 |-> FALSE, outcome |-> "NO_SUCH_DATA_PART"]}
    \cup {[part |-> part, s3 |-> FALSE, outcome |-> o] :
              part \in {"ordinary", "projection"},
              o \in SendOutcomes \ {"NO_SUCH_DATA_PART"}}
    \cup {[part |-> "ordinary", s3 |-> TRUE, outcome |-> o] :
              o \in {"ok", "OtherException"}}

\* the try block and the catch clause it ends in
SendBody(r) ==
    /\ handler[r].pc = "sending"
    /\ \E sent \in SendResults :
          SetHandler(r, [handler[r] EXCEPT
                            !.pc = "exitTable", !.find_part = TRUE,
                            !.part = sent.part,
                            !.body = sent.part # "null",
                            !.cookie_s3 = sent.s3,
                            !.outcome = sent.outcome,
                            !.reported = ReportsBrokenPart(sent.outcome),
                            !.report_target =
                                IF ReportsBrokenPart(sent.outcome)
                                THEN ReportTarget(sent.part) ELSE "none",
                            !.rethrown = sent.outcome # "ok"])
    /\ UNCHANGED <<total_sends, current_table_sends, replicated_max_parallel_sends,
                   replicated_max_parallel_sends_for_table>>

\* variant that decrements at the end of the try block instead of in a
\* scope guard
C19_Mutant_ExitTable(r) ==
    /\ handler[r].pc = "exitTable"
    /\ current_table_sends' =
          [current_table_sends EXCEPT ![TableOf(r)] =
              IF handler[r].outcome = "ok" THEN @ - 1 ELSE @]
    /\ SetHandler(r, [handler[r] EXCEPT !.pc = "exitTotal"])
    /\ UNCHANGED <<total_sends, replicated_max_parallel_sends,
                   replicated_max_parallel_sends_for_table>>

\* scope guards run in reverse order of declaration
ExitTable(r) ==
    /\ handler[r].pc = "exitTable"
    /\ current_table_sends' =
          [current_table_sends EXCEPT ![TableOf(r)] = current_table_sends[TableOf(r)] - 1]
    /\ SetHandler(r, [handler[r] EXCEPT !.pc = "exitTotal"])
    /\ UNCHANGED <<total_sends, replicated_max_parallel_sends,
                   replicated_max_parallel_sends_for_table>>

ExitTotal(r) ==
    /\ handler[r].pc = "exitTotal"
    /\ total_sends' = total_sends - 1
    /\ SetHandler(r, [handler[r] EXCEPT !.pc = "done",
                         !.status = IF handler[r].outcome = "ok" THEN 200 ELSE 500])
    /\ UNCHANGED <<current_table_sends, replicated_max_parallel_sends,
                   replicated_max_parallel_sends_for_table>>

NextSend ==
    \E r \in Requests :
        \/ Arrive(r)
        \/ CheckGlobal(r)
        \/ CheckTable(r)
        \/ IncTotal(r)
        \/ IncTable(r)
        \/ SendBody(r)
        \/ ExitTable(r)
        \/ ExitTotal(r)


\* C3: when a cap is non-zero the number of requests simultaneously past
\* admission (total_sends, data.current_table_sends) never exceeds it,
\* under every interleaving of concurrent FetchPart requests.
C3_CapsNeverExceeded ==
    /\ replicated_max_parallel_sends # 0 => total_sends <= replicated_max_parallel_sends
    /\ \A t \in Tables :
          replicated_max_parallel_sends_for_table # 0
             => current_table_sends[t] <= replicated_max_parallel_sends_for_table

\* ---- C16 ---------------------------------------------------------------
\* the exceptions that tell of the connection, not of the part
NetworkErrors == {"NetException", "CANNOT_WRITE_TO_OSTREAM"}

\* what the catch clauses are to do with the exception of request r
ReportedAsClaimed(r) ==
    /\ handler[r].rethrown
    /\ IF handler[r].outcome \in NetworkErrors \cup {"ABORTED"}
       THEN ~handler[r].reported /\ handler[r].report_target = "none"
       ELSE /\ handler[r].reported
            /\ handler[r].report_target =
                  (IF handler[r].part = "projection" THEN "parent" ELSE "part_name")

\* C16 as stated: on every exception while serving a FetchPart request that
\* is neither Aborted nor a network error the server calls reportBrokenPart
\* (for the part, or for its parent when it is a projection part); on
\* Aborted and network errors it reports nothing; the exception is rethrown.
C16_EveryOtherExceptionReported ==
    \A r \in Requests :
        handler[r].outcome \notin {"none", "ok"} => ReportedAsClaimed(r)

\* C16, amended: the same for every exception raised inside the try block
\* (from findPart on); an exception raised before it, by the validation of
\* the part name, leaves processQueryPart without a report.
C16_ExceptionInTryBlockReported ==
    \A r \in Requests :
        handler[r].outcome \notin {"none", "ok"} =>
            IF handler[r].find_part THEN ReportedAsClaimed(r)
            ELSE /\ handler[r].rethrown
                 /\ ~handler[r].reported
                 /\ handler[r].report_target = "none"

\* one request failed on a projection part and its parent was reported,
\* another was aborted and nothing was reported
C16_Witness ==
    \E r, q \in Requests :
        /\ handler[r].outcome = "OtherException"
        /\ handler[r].part = "projection"
        /\ handler[r].report_target = "parent"
        /\ handler[q].outcome = "ABORTED"
        /\ ~handler[q].reported

\* ---- C19 ---------------------------------------------------------------
\* the requests between ++total_sends and --total_sends
HoldingTotal == {r \in Requests : handler[r].pc \in {"incTable", "sending", "exitTable", "exitTotal"}}

\* the requests between ++data.current_table_sends and its decrement
HoldingTable(t) == {r \in Requests : TableOf(r) = t /\ handler[r].pc \in {"sending", "exitTable"}}

\* the requests that have passed admission and not yet left the handler
AdmittedInProgress == {r \in Requests : handler[r].cookie_version /\ handler[r].pc # "done"}

\* C19 as stated: in every reachable state each send counter equals the
\* number of admitted requests still in progress, and is zero when none is.
C19_CountersEqualAdmittedInProgress ==
    /\ total_sends = Cardinality(AdmittedInProgress)
    /\ \A t \in Tables :
           current_table_sends[t] = Cardinality({r \in AdmittedInProgress : TableOf(r) = t})

\* C19, amended: every admitted request increments each send counter once
\* before any body byte is written and decrements it once on every exit
\* path, so each counter equals the number of requests between its own
\* increment and its own decrement, and is zero when no request is in
\* progress.
C19_CountersEqualRequestsInProgress ==
    /\ total_sends = Cardinality(HoldingTotal)
    /\ \A t \in Tables : current_table_sends[t] = Cardinality(HoldingTable(t))
    /\ \A r \in Requests :
           /\ handler[r].pc \in {"idle", "checkGlobal", "checkTable", "incTotal", "incTable"}
                 => ~handler[r].body
           /\ (handler[r].body /\ handler[r].pc # "done")
                 => r \in HoldingTotal
    /\ (\A r \in Requests : handler[r].pc \in {"idle", "done"}) =>
           /\ total_sends = 0
           /\ \A t \in Tables : current_table_sends[t] = 0

\* requests have left on several exit paths (a normal return, a network
\* error, a missing part, a cancellation) and the counters are back at zero
C19_Witness ==
    /\ \A r \in Requests : handler[r].pc = "done" /\ handler[r].find_part
    /\ \E r, q \in Requests :
           /\ handler[r].outcome \in {"NetException", "NO_SUCH_DATA_PART", "ABORTED"}
           /\ handler[q].outcome = "ok"
    /\ total_sends = 0

\* ---- C20 ---------------------------------------------------------------
\* C20: a request rejected by admission control gets status 429 with
\* Retry-After: 10 and leaves everything else untouched: no body byte, no
\* server_protocol_version / fetch_part_incrementally / send_s3_metadata
\* cookie, no change of a send counter, no findPart, no reportBrokenPart.
C20_RejectionLeavesAllUntouched ==
    /\ [](\A r \in Requests :
             handler[r].status = HTTP_TOO_MANY_REQUESTS =>
                 /\ handler[r].pc = "done"
                 /\ handler[r].retry_after = 10
                 /\ ~handler[r].body
                 /\ ~handler[r].cookie_version
                 /\ ~handler[r].cookie_incrementally
                 /\ ~handler[r].cookie_s3
                 /\ ~handler[r].find_part
                 /\ ~handler[r].reported
                 /\ handler[r].report_target = "none")
    /\ [][\A r \in Requests :
             (/\ handler[r].status # HTTP_TOO_MANY_REQUESTS
              /\ handler'[r].status = HTTP_TOO_MANY_REQUESTS) =>
                 /\ total_sends' = total_sends
                 /\ current_table_sends' = current_table_sends]_vars

\* an incremental request was rejected while another request was sending
C20_Witness ==
    \E r, q \in Requests :
        /\ handler[r].status = HTTP_TOO_MANY_REQUESTS
        /\ Incrementally(r)
        /\ handler[q].pc = "sending"
        /\ total_sends = 1

(***************************************************************************)
(* Data parts: file names, paths, hashes, checksum manifests               *)
(***************************************************************************)
MaxProjections == 1   \* projections of the sender's part

\* names ending in COMPRESSION_DATA_FILE_EXTENSION or COMPRESSION_MARKS_FILE_EXTENSION
CompressionNames == {"c.cdata"}
\* part->getFileNamesWithoutChecksums()
NoChecksumNames == {"checksums.txt", "columns.txt"}
\* names only a malicious replica sends
EvilNames == {"../evil", "/a.bin"}

ProjectionName(i) == "p" \o ToString(i)
\* name + ".proj"
ProjDir(n) == n \o ".proj"

\* variant without the compression-file exception
C4_Mutant_endsWithCompressionExtension(file_name) == FALSE

endsWithCompressionExtension(file_name) == file_name \in CompressionNames

\* std::map<String, ...> iterates its keys in this (lexicographic) order
SortedNames ==
    <<"../evil", "../evil.proj", "/a.bin", "/a.bin.proj", "a.bin", "b.bin", "c.cdata",
      "checksums.txt", "columns.txt">>
    \o [i \in 1..(MaxProjections + 1) |-> ProjDir(ProjectionName(i))]

\* the keys of a map, in iteration order
KeysInOrder(m) == SelectSeq(SortedNames, LAMBDA n : n \in DOMAIN m)
SetInOrder(S) == SelectSeq(SortedNames, LAMBDA n : n \in S)

\* a name split at '/'; a leading "/" component marks an absolute name
Components(name) ==
    CASE name = "../evil" -> <<"..", "evil">>
      [] name = "../evil.proj" -> <<"..", "evil.proj">>
      [] name = "/a.bin" -> <<"/", "a.bin">>
      [] name = "/a.bin.proj" -> <<"/", "a.bin.proj">>
      [] OTHER -> <<name>>

\* fs::path(base) / name : an absolute right operand replaces the left one
PathAppend(base, name) ==
    IF Head(Components(name)) = "/" THEN Components(name) ELSE base \o Components(name)

\* base + name on strings (base ends with '/'): the name's components follow
PathConcat(base, name) ==
    base \o SelectSeq(Components(name), LAMBDA c : c # "/")

\* what the path designates: "/" restarts at the filesystem root, ".." goes up
RECURSIVE Resolve(_, _)
Resolve(done, rest) ==
    IF rest = <<>> THEN done
    ELSE LET c == Head(rest) IN
         CASE c = "/" -> Resolve(<<>>, Tail(rest))
           [] c = ".." -> Resolve(IF done = <<>> THEN <<>> ELSE SubSeq(done, 1, Len(done) - 1),
                                  Tail(rest))
           [] OTHER -> Resolve(Append(done, c), Tail(rest))

\* fs::weakly_canonical
weakly_canonical(p) == Resolve(<<>>, p)

startsWith(p, prefix) ==
    /\ Len(p) >= Len(prefix)
    /\ SubSeq(p, 1, Len(prefix)) = prefix

\* HashingWriteBuffer::getHash over the bytes written
RECURSIVE HashFrom(_, _)
HashFrom(h, bytes) ==
    IF bytes = <<>> THEN h
    ELSE HashFrom((h * 31 + Head(bytes) + 1) % 65521, Tail(bytes))

getHash(bytes) == HashFrom(7, bytes)

\* MergeTreeDataPartChecksum {} : a default-constructed entry
DefaultChecksum == [file_size |-> 0, file_hash |-> 0, file_offset |-> 0]

Checksum(size, hash) == [file_size |-> size, file_hash |-> hash, file_offset |-> 0]

EmptyChecksums == [n \in {} |-> DefaultChecksum]

\* Checksums::addFile
addFile(checksums, name, size, hash) == (name :> Checksum(size, hash)) @@ checksums

RECURSIVE SumSizes(_, _)
SumSizes(checksums, names) ==
    IF names = <<>> THEN 0
    ELSE checksums[Head(names)].file_size + SumSizes(checksums, Tail(names))

getTotalSizeOnDisk(checksums) == SumSizes(checksums, KeysInOrder(checksums))

\* the serialized manifest (checksums.txt, getSerializedString): one record per
\* name of the universe, in map order
RECURSIVE SerializeFrom(_, _)
SerializeFrom(checksums, names) ==
    IF names = <<>> THEN <<>>
    ELSE (IF Head(names) \in DOMAIN checksums
            THEN <<1, checksums[Head(names)].file_size, checksums[Head(names)].file_hash>>
            ELSE <<0>>)
         \o SerializeFrom(checksums, Tail(names))

getSerializedString(checksums) == SerializeFrom(checksums, SortedNames)

\* Checksums::read : the manifest a serialized string holds
RECURSIVE ParseFrom(_, _)
ParseFrom(bytes, names) ==
    IF names = <<>> \/ bytes = <<>> THEN EmptyChecksums
    ELSE IF Head(bytes) = 0
           THEN ParseFrom(Tail(bytes), Tail(names))
           ELSE addFile(ParseFrom(SubSeq(bytes, 4, Len(bytes)), Tail(names)),
                        Head(names), bytes[2], bytes[3])

readChecksums(bytes) == ParseFrom(bytes, SortedNames)

getTotalChecksumUInt128(checksums) == getHash(getSerializedString(checksums))

(***************************************************************************)
(* Parts held by the replicas                                              *)
(***************************************************************************)
\* file contents (sequences of bytes)
Contents == {<<1>>, <<2>>}

NoPart == [name |-> "none"]

\* the manifest of a directory of data files
ChecksumsOfData(data) ==
    [n \in DOMAIN data |-> Checksum(Len(data[n]), getHash(data[n]))]

\* a part without projections (also: a projection part), its files on disk
\* agreeing with its manifest
MakeSubPart(part_name, data) ==
    [name |-> part_name,
     checksums |-> ChecksumsOfData(data),
     files |-> data @@ ("columns.txt" :> <<5>>)
                    @@ ("checksums.txt" :> getSerializedString(ChecksumsOfData(data))),
     projections |-> [n \in {} |-> NoPart],
     enable_compact_map_data |-> FALSE]

\* a part with projection parts: the parent's manifest holds one entry
\* <projection>.proj per projection
MakePart(part_name, data, projs) ==
    LET checksums ==
          ChecksumsOfData(data)
          @@ [d \in {ProjDir(n) : n \in DOMAIN projs} |->
                LET n == CHOOSE n \in DOMAIN projs : ProjDir(n) = d
                IN Checksum(getTotalSizeOnDisk(projs[n].checksums),
                            getTotalChecksumUInt128(projs[n].checksums))]
    IN [name |-> part_name,
        checksums |-> checksums,
        files |-> data @@ ("columns.txt" :> <<5>>)
                       @@ ("checksums.txt" :> getSerializedString(checksums)),
        projections |-> projs,
        enable_compact_map_data |-> FALSE]

\* data files of a part: a.bin always (any contents), b.bin and c.cdata optionally
BaseData ==
    {("a.bin" :> c) @@ [n \in D |-> <<1>>] :
        c \in Contents, D \in SUBSET {"b.bin", "c.cdata"}}

ProjectionParts == {MakeSubPart("proj", ("a.bin" :> <<1>>))}

ProjectionAssignments ==
    UNION {[{ProjectionName(i) : i \in 1..k} -> ProjectionParts] : k \in 0..MaxProjections}

PartUniverse(part_name) ==
    {MakePart(part_name, d, pr) : d \in BaseData, pr \in ProjectionAssignments}

(***************************************************************************)
(* Sender: Service::sendPartFromDisk                                       *)
(***************************************************************************)
NameToken(n) == [k |-> "name", name |-> n]
CountsToken(n, compact) == [k |-> "counts", files |-> n, compact |-> compact]
SkipCountToken(n) == [k |-> "skipcount", n |-> n]
SkipToken(n, size, hash) == [k |-> "skip", name |-> n, size |-> size, hash |-> hash]
FileToken(n, size, data, hash) ==
    [k |-> "file", name |-> n, size |-> size, data |-> data, hash |-> hash]

\* Checksums::isEqual(rhs, name): the entry of name is the same in both manifests
isEqual(checksums, rhs, name) ==
    /\ name \in DOMAIN checksums
    /\ name \in DOMAIN rhs
    /\ checksums[name] = rhs[name]

\* the loop of lines 427-461: which files are skip-copied
SkipCopyNames(checksums, old_checksums, incrementally) ==
    {n \in DOMAIN checksums :
        /\ ~endsWithCompressionExtension(n)
        /\ incrementally
        /\ n # "checksums.txt"
        /\ n # "columns.txt"
        /\ isEqual(checksums, old_checksums, n)}

\* lines 383-393 and 416-549 for one part directory: the tokens written and
\* the manifest accumulated (data_checksums), projections apart
SendFiles(part, incrementally, old_checksums) ==
    LET file_names_without_checksums == NoChecksumNames \cap DOMAIN part.files
        checksums0 ==
            [n \in {m \in DOMAIN part.checksums : m \notin {ProjDir(q) : q \in DOMAIN part.projections}}
                |-> part.checksums[n]]
            @@ [n \in file_names_without_checksums |-> DefaultChecksum]
        compression == {n \in DOMAIN checksums0 : endsWithCompressionExtension(n)}
        skip_copy == SkipCopyNames(checksums0, old_checksums, incrementally)
        sent == SetInOrder(DOMAIN checksums0 \ (compression \cup skip_copy))
        skips == SetInOrder(skip_copy)
        out == <<CountsToken(Len(sent), part.enable_compact_map_data)>>
               \o (IF incrementally
                     THEN <<SkipCountToken(Len(skips))>>
                          \o [i \in 1..Len(skips) |->
                                SkipToken(skips[i], checksums0[skips[i]].file_size,
                                          checksums0[skips[i]].file_hash)]
                     ELSE <<>>)
               \o [i \in 1..Len(sent) |->
                     FileToken(sent[i], Len(part.files[sent[i]]), part.files[sent[i]],
                               getHash(part.files[sent[i]]))]
        data_checksums ==
            [n \in compression \cup skip_copy
                   \cup (Range(sent) \ file_names_without_checksums) |->
               IF n \in compression \cup skip_copy
                 THEN Checksum(checksums0[n].file_size, checksums0[n].file_hash)
                 ELSE Checksum(Len(part.files[n]), getHash(part.files[n]))]
    IN [out |-> out, data_checksums |-> data_checksums]

\* what old_checksums.read(body) does on a body that was already consumed
\* (Checksums::read is library code): it throws, or it reads no entry
ReadAtEof == {"throws", "empty"}

\* the tokens and the manifest of one directory appended to the state of the
\* send; the body read is consumed
AppendSent(st, r, incrementally) ==
    [st EXCEPT !.out = st.out \o r.out,
               !.body = IF st.body # <<>> /\ incrementally THEN Tail(st.body) ELSE st.body,
               !.last = r.data_checksums]

\* the request body: the serialized checksums of the receiver's old part;
\* line 421 consumes it, in every (also recursive) call
SendOnePart(part, incrementally, st) ==
    IF st.err # "none" THEN st
    ELSE IF incrementally /\ st.body = <<>> /\ st.read_at_eof = "throws"
      THEN [st EXCEPT !.err = "CANNOT_READ_BODY"]
    ELSE AppendSent(st,
                    SendFiles(part, incrementally,
                              IF incrementally /\ st.body # <<>>
                                THEN readChecksums(Head(st.body))
                                ELSE EmptyChecksums),
                    incrementally)

ProjectionsInOrder(S) ==
    SelectSeq([i \in 1..(MaxProjections + 1) |-> ProjectionName(i)], LAMBDA n : n \in S)

\* line 406: the projection's manifest folded into one entry of data_checksums
FoldProjection(n, sent) ==
    IF sent.err # "none" THEN sent
    ELSE [sent EXCEPT !.data_checksums =
             addFile(@, ProjDir(n), getTotalSizeOnDisk(sent.last),
                     getTotalChecksumUInt128(sent.last))]

\* lines 400-413 for the projection named n
SendProjection(part, n, projections, incrementally, st) ==
    IF n \in projections
      THEN FoldProjection(n, SendOnePart(part.projections[n], incrementally,
                                         [st EXCEPT !.out = Append(@, NameToken(n))]))
    ELSE IF ProjDir(n) \in DOMAIN part.checksums
      THEN [st EXCEPT !.data_checksums =
               addFile(@, ProjDir(n), part.checksums[ProjDir(n)].file_size,
                       part.checksums[ProjDir(n)].file_hash)]
    ELSE st

\* lines 397-414: the projection parts, each sent by a recursive call
RECURSIVE SendProjections(_, _, _, _, _)
SendProjections(part, names, projections, incrementally, st) ==
    IF names = <<>> \/ st.err # "none" THEN st
    ELSE SendProjections(part, Tail(names), projections, incrementally,
                         SendProjection(part, Head(names), projections, incrementally, st))

\* line 548: part->getChecksums()->checkEqual(data_checksums)
CheckSent(part, st) ==
    IF st.err # "none" THEN st
    ELSE [st EXCEPT !.data_checksums = st.last @@ @,
                    !.err = IF part.checksums = st.last @@ st.data_checksums THEN "none"
                            ELSE "checkEqual"]

\* Service::sendPartFromDisk(part, body, out, version, incrementally, projections):
\* what is written to out before it returns or throws (err)
sendPartFromDisk(part, body, incrementally, projections, read_at_eof) ==
    CheckSent(part,
        SendOnePart(part, incrementally,
            SendProjections(part, ProjectionsInOrder(DOMAIN part.projections),
                            projections, incrementally,
                            [out |-> <<>>, body |-> body, err |-> "none",
                             read_at_eof |-> read_at_eof, last |-> EmptyChecksums,
                             data_checksums |-> EmptyChecksums])))

(***************************************************************************)
(* The receiver's disk                                                     *)
(***************************************************************************)
\* disk->getPath(), data.getRelativeDataPath(MAIN)
DiskPath == <<"disk">>
RelativeDataPath == <<"data">>

\* the name of the part fetched, and of the prior version the receiver may hold
PartName == "p"
OldPartName == "o"

\* fullPath(disk, path): where a path given to the disk lies
FullPath(path) == Resolve(<<>>, DiskPath \o path)

Ancestors(p) == {SubSeq(p, 1, i) : i \in 0..Len(p)}
Parent(p) == SubSeq(p, 1, Len(p) - 1)

\* a file: its inode and the bytes of the inode
File(ino, bytes) == [ino |-> ino, data |-> bytes]

EmptyDisk == [dirs |-> Ancestors(FullPath(RelativeDataPath)),
              files |-> [q \in {} |-> File(<<>>, <<>>)]]

exists(d, p) == p \in d.dirs \/ p \in DOMAIN d.files

createDirectories(d, p) == [d EXCEPT !.dirs = @ \cup Ancestors(p)]

\* variant in which nothing is removed
C7_Mutant_removeRecursive(d, p) == d

removeRecursive(d, p) ==
    [dirs |-> {q \in d.dirs : ~startsWith(q, p)},
     files |-> [q \in {r \in DOMAIN d.files : ~startsWith(r, p)} |-> d.files[q]]]

\* disk->writeFile(path, Rewrite) followed by the copy of bytes into it
CanWrite(d, p) == p # <<>> /\ Parent(p) \in d.dirs /\ p \notin d.dirs

writeFile(d, p, bytes) ==
    LET ino == IF p \in DOMAIN d.files THEN d.files[p].ino ELSE p
    IN [d EXCEPT !.files =
          [q \in DOMAIN d.files \cup {p} |->
             IF q = p THEN File(ino, bytes)
             ELSE IF d.files[q].ino = ino THEN File(ino, bytes)
             ELSE d.files[q]]]

\* createHardLink(source, destination): link(2); an existing destination is
\* accepted when it is already the same inode
createHardLink(d, source, destination) ==
    IF source \notin DOMAIN d.files THEN [disk |-> d, err |-> "CANNOT_LINK"]
    ELSE IF destination \in DOMAIN d.files
      THEN [disk |-> d,
            err |-> IF d.files[destination].ino = d.files[source].ino THEN "none"
                    ELSE "CANNOT_LINK"]
    ELSE IF ~CanWrite(d, destination) THEN [disk |-> d, err |-> "CANNOT_LINK"]
    ELSE [disk |-> [d EXCEPT !.files = (destination :> d.files[source]) @@ @],
          err |-> "none"]

\* number of names of an inode
LinkCount(d, ino) == Cardinality({q \in DOMAIN d.files : d.files[q].ino = ino})

\* old_version_part->getFullPath()
OldPartPath == FullPath(RelativeDataPath \o <<OldPartName>>)

\* a part stored on the disk at directory p
StorePart(d, p, part) ==
    LET d1 == createDirectories(d, p)
        d2 == [d1 EXCEPT !.files = [n \in {Append(p, f) : f \in DOMAIN part.files} |->
                                      File(n, part.files[n[Len(n)]])] @@ @]
    IN d2

\* the files below directory p: relative name -> bytes
FilesUnder(d, p) ==
    [r \in {SubSeq(q, Len(p) + 1, Len(q)) : q \in {q \in DOMAIN d.files : startsWith(q, p)}}
        |-> d.files[p \o r].data]

(***************************************************************************)
(* The response of the peer                                                *)
(***************************************************************************)
\* lines 212-251: size, ttl infos, part type, uuid, number of projections
HeaderToken(size, projections) ==
    [k |-> "header", sum_files_size |-> size, part_type |-> "Wide",
     projections |-> projections]

\* a file frame whose bytes end before file_size bytes were received
CutFileToken(n, size) == [k |-> "cutfile", name |-> n, size |-> size]

\* Service::processQueryPart, lines 206-256, for a part on disk: the stream
\* written, which ends where sendPartFromDisk throws
HonestResponse(part, old, read_at_eof) ==
    <<HeaderToken(getTotalSizeOnDisk(part.checksums), Cardinality(DOMAIN part.projections))>>
    \o sendPartFromDisk(part,
                        IF old # NoPart THEN <<getSerializedString(old.checksums)>> ELSE <<>>,
                        old # NoPart, DOMAIN part.projections, read_at_eof).out

\* what a malicious or failing peer can make of a response: one received name
\* replaced, one hash replaced, or the stream cut
Forgeries(w) ==
    {[w EXCEPT ![i].name = e] :
        i \in {j \in DOMAIN w : w[j].k \in {"name", "skip", "file"}}, e \in EvilNames}
    \cup {[w EXCEPT ![i].hash = (@ + 1) % 65521] : i \in {j \in DOMAIN w : w[j].k = "file"}}
    \cup {SubSeq(w, 1, i) : i \in 0..(Len(w) - 1)}
    \cup {Append(SubSeq(w, 1, i - 1), CutFileToken(w[i].name, w[i].size)) :
            i \in {j \in DOMAIN w : w[j].k = "file"}}

\* the streams the receiver may get
Responses(peer, honest) == IF peer = "honest" THEN {honest} ELSE Forgeries(honest)

\* fetchPart, line 639-641
OldVersionPart(sc) == IF sc.incrementally THEN sc.old ELSE NoPart

(***************************************************************************)
(* Receiver: Fetcher::fetchPart and Fetcher::downloadPartToDisk            *)
(***************************************************************************)
TMP_PREFIX == "tmp-fetch_"

\* part_download_path of downloadPartToDisk (line 1099), relative to the disk
PartDownloadPath == RelativeDataPath \o <<TMP_PREFIX \o PartName>>

IdleFetch ==
    [pc |-> "idle", retried |-> FALSE, error |-> "none", incremental |-> FALSE,
     projections |-> 0,
     level |-> "none", part_download_path |-> <<>>, projection_name |-> "",
     files |-> 0, skip_copy_files |-> 0,
     checksums |-> EmptyChecksums, projection_checksum |-> EmptyChecksums]

Fail(code) == fetch' = [fetch EXCEPT !.pc = "done", !.error = code]

\* the manifest the entry being received is added to
AddReceived(f, name, size, hash) ==
    IF name \in NoChecksumNames THEN f
    ELSE IF f.level = "projection"
      THEN [f EXCEPT !.projection_checksum = addFile(@, name, size, hash)]
      ELSE [f EXCEPT !.checksums = addFile(@, name, size, hash)]

\* lines 632-839 and 1088-1116: the request, the response header, the
\* (re-)creation of the download directory
FetchPart ==
    /\ fetch.pc = "idle"
    /\ UNCHANGED <<sendVars, eagerVars, exchange, materialize, gate, stream, scenario, blocker>>
    /\ IF blocker
         THEN Fail("ABORTED") /\ UNCHANGED <<wire, disk>>
         ELSE \E w \in Responses(scenario.peer,
                                  HonestResponse(scenario.part, OldVersionPart(scenario),
                                                 scenario.read_at_eof)) :
                    IF w = <<>>
                      THEN Fail("ATTEMPT_TO_READ_AFTER_EOF") /\ UNCHANGED <<wire, disk>>
                      ELSE /\ wire' = Tail(w)
                           /\ disk' = createDirectories(
                                         IF exists(disk, FullPath(PartDownloadPath))
                                           THEN removeRecursive(disk, FullPath(PartDownloadPath))
                                           ELSE disk,
                                         FullPath(PartDownloadPath))
                           /\ fetch' = [fetch EXCEPT !.pc = "begin",
                                           !.incremental = OldVersionPart(scenario) # NoPart,
                                           !.projections = Head(w).projections,
                                           !.part_download_path = PartDownloadPath]

\* reads "files", the compact-map flag and, with an old version part, the
\* number of skip-copy entries (lines 973-982)
ReadCounts(f, w) ==
    IF w = <<>> \/ (f.incremental /\ Len(w) < 2)
      THEN [fetch |-> [f EXCEPT !.pc = "done", !.error = "ATTEMPT_TO_READ_AFTER_EOF"],
            wire |-> <<>>]
      ELSE [fetch |-> [f EXCEPT !.pc = "entries", !.files = Head(w).files,
                                !.skip_copy_files = IF f.incremental THEN w[2].n ELSE 0],
            wire |-> IF f.incremental THEN Tail(Tail(w)) ELSE Tail(w)]

\* lines 1118-1132 (a projection: its name, its directory) or line 1138 (the
\* base part), up to the counts
BeginSub ==
    /\ fetch.pc = "begin"
    /\ UNCHANGED <<sendVars, eagerVars, exchange, materialize, gate, stream, scenario, blocker>>
    /\ IF fetch.projections > 0
         THEN IF wire = <<>>
                THEN Fail("ATTEMPT_TO_READ_AFTER_EOF") /\ UNCHANGED <<wire, disk>>
                ELSE LET projection_name == Head(wire).name
                         path == PathConcat(PartDownloadPath, ProjDir(projection_name))
                         r == ReadCounts([fetch EXCEPT !.level = "projection",
                                             !.projection_name = projection_name,
                                             !.part_download_path = path,
                                             !.projection_checksum = EmptyChecksums],
                                         Tail(wire))
                     IN /\ disk' = createDirectories(disk, FullPath(path))
                        /\ fetch' = r.fetch
                        /\ wire' = r.wire
         ELSE LET r == ReadCounts([fetch EXCEPT !.level = "base",
                                      !.part_download_path = PartDownloadPath], wire)
              IN /\ fetch' = r.fetch
                 /\ wire' = r.wire
                 /\ UNCHANGED disk

\* the cancellation branch (lines 998-1005 and 1049-1056)
Cancelled(d) ==
    /\ disk' = removeRecursive(d, FullPath(fetch.part_download_path))
    /\ Fail("ABORTED")

\* one skip-copy entry (lines 984-1009)
SkipCopyEntry ==
    /\ fetch.pc = "entries"
    /\ fetch.skip_copy_files > 0
    /\ UNCHANGED <<sendVars, eagerVars, exchange, materialize, gate, stream, scenario, blocker>>
    /\ IF wire = <<>>
         THEN Fail("ATTEMPT_TO_READ_AFTER_EOF") /\ UNCHANGED <<wire, disk>>
         ELSE LET stream_name == Head(wire).name
                  source == Resolve(<<>>, PathConcat(OldPartPath, stream_name))
                  destination == Resolve(<<>>, DiskPath \o PathAppend(fetch.part_download_path,
                                                                       stream_name))
                  linked == createHardLink(disk, source, destination)
              IN /\ wire' = Tail(wire)
                 /\ IF linked.err # "none"
                      THEN Fail(linked.err) /\ UNCHANGED disk
                    ELSE IF blocker
                      THEN Cancelled(linked.disk)
                    ELSE /\ disk' = linked.disk
                         /\ fetch' = [AddReceived(fetch, stream_name, Head(wire).size,
                                                  Head(wire).hash)
                                        EXCEPT !.skip_copy_files = @ - 1]

\* the check of lines 1031-1035
InsecurePath(part_download_path, file_name) ==
    ~startsWith(weakly_canonical(PathAppend(part_download_path, file_name)),
                weakly_canonical(part_download_path))

\* one transmitted file (lines 1012-1072)
FileEntry ==
    /\ fetch.pc = "entries"
    /\ fetch.skip_copy_files = 0
    /\ fetch.files > 0
    /\ UNCHANGED <<sendVars, eagerVars, exchange, materialize, gate, stream, scenario, blocker>>
    /\ IF wire = <<>>
         THEN Fail("ATTEMPT_TO_READ_AFTER_EOF") /\ UNCHANGED <<wire, disk>>
         ELSE LET stream_name == Head(wire).name
                  file_size == Head(wire).size
                  path == FullPath(PathAppend(fetch.part_download_path, stream_name))
              IN /\ wire' = Tail(wire)
                 /\ IF InsecurePath(fetch.part_download_path, stream_name)
                      THEN Fail("INSECURE_PATH") /\ UNCHANGED disk
                    ELSE IF ~CanWrite(disk, path)
                      THEN Fail("CANNOT_OPEN_FILE") /\ UNCHANGED disk
                    ELSE IF Head(wire).k = "cutfile"
                      THEN /\ disk' = writeFile(disk, path, <<>>)
                           /\ Fail("CANNOT_READ_ALL_DATA")
                    ELSE IF blocker
                      THEN Cancelled(writeFile(disk, path, Head(wire).data))
                    ELSE /\ disk' = writeFile(disk, path, Head(wire).data)
                         /\ IF Head(wire).hash # getHash(Head(wire).data)
                              THEN Fail("CHECKSUM_DOESNT_MATCH")
                              ELSE fetch' = [AddReceived(fetch, stream_name, file_size,
                                                         Head(wire).hash)
                                               EXCEPT !.files = @ - 1]

\* the end of downloadBaseOrProjectionPartToDisk: for a projection, lines
\* 1133-1134
EndSub ==
    /\ fetch.pc = "entries"
    /\ fetch.skip_copy_files = 0
    /\ fetch.files = 0
    /\ UNCHANGED <<sendVars, eagerVars, exchange, materialize, gate, stream, scenario, blocker, wire, disk>>
    /\ fetch' = IF fetch.level = "projection"
                  THEN [fetch EXCEPT !.pc = "begin",
                           !.projections = @ - 1,
                           !.checksums = addFile(@, ProjDir(fetch.projection_name),
                                     getTotalSizeOnDisk(fetch.projection_checksum),
                                     getTotalChecksumUInt128(fetch.projection_checksum))]
                  ELSE [fetch EXCEPT !.pc = "finalize"]

\* Checksums::checkEqual(rhs) of the manifest loaded from checksums.txt against
\* the manifest received; library code: entries of compression files, which the
\* receiver never adds, are either required or not (strict)
checkEqual(loaded, rhs, strict) ==
    LET required == IF strict THEN DOMAIN loaded
                    ELSE {n \in DOMAIN loaded : ~endsWithCompressionExtension(n)}
    IN IF \E n \in DOMAIN rhs : n \notin DOMAIN loaded THEN "UNEXPECTED_FILE_IN_DATA_PART"
       ELSE IF \E n \in required : n \notin DOMAIN rhs THEN "NO_FILE_IN_DATA_PART"
       ELSE IF \E n \in DOMAIN rhs : loaded[n].file_size # rhs[n].file_size
              THEN "BAD_SIZE_OF_FILE_IN_DATA_PART"
       ELSE IF \E n \in DOMAIN rhs : loaded[n].file_hash # rhs[n].file_hash
              THEN "CHECKSUM_DOESNT_MATCH"
       ELSE "none"

\* lines 1140-1158: assertEOF, createPart, loadColumnsChecksumsIndexes, checkEqual
Finalize ==
    /\ fetch.pc = "finalize"
    /\ UNCHANGED <<sendVars, eagerVars, exchange, materialize, gate, stream, scenario, blocker, wire, disk>>
    /\ LET dir == FullPath(PartDownloadPath)
       IN IF wire # <<>> THEN Fail("CANNOT_READ_ALL_DATA")
          ELSE IF Append(dir, "checksums.txt") \notin DOMAIN disk.files
                  \/ Append(dir, "columns.txt") \notin DOMAIN disk.files
            THEN Fail("NO_FILE_IN_DATA_PART")
          ELSE \E strict \in BOOLEAN :
                 LET loaded == readChecksums(disk.files[Append(dir, "checksums.txt")].data)
                 IN Fail(checkEqual(loaded, fetch.checksums, strict))

\* another thread cancels the fetches (blocker.cancel())
Cancel ==
    /\ ~blocker
    /\ fetch.pc \notin {"idle", "done"}
    /\ blocker' = TRUE
    /\ UNCHANGED <<sendVars, eagerVars, exchange, materialize, gate, stream, scenario, wire, fetch, disk>>

\* the receiver's disk before the fetch: the old version part, if it holds one
InitialDisk(sc) ==
    IF sc.old = NoPart THEN EmptyDisk ELSE StorePart(EmptyDisk, OldPartPath, sc.old)

\* the caller fetches the part again after a failed fetch (the cancellation
\* has been lifted by then)
Retry ==
    /\ fetch.pc = "done"
    /\ fetch.error # "none"
    /\ ~fetch.retried
    /\ fetch' = [IdleFetch EXCEPT !.retried = TRUE]
    /\ wire' = <<>>
    /\ blocker' = FALSE
    /\ UNCHANGED <<sendVars, eagerVars, exchange, materialize, gate, stream, scenario, disk>>

InitFetch ==
    /\ scenario \in {sc \in [part : PartUniverse(PartName),
                             old : {NoPart} \cup PartUniverse(OldPartName),
                             incrementally : BOOLEAN,
                             read_at_eof : ReadAtEof,
                             peer : {"honest", "forged"}] :
                        /\ sc.old # NoPart => sc.old.projections = <<>>
                        /\ sc.incrementally => sc.old # NoPart
                        /\ sc.read_at_eof = "empty"
                              => sc.incrementally /\ sc.part.projections # <<>>}
    /\ wire = <<>>
    /\ fetch = IdleFetch
    /\ disk = InitialDisk(scenario)
    /\ blocker \in BOOLEAN

NextFetch ==
    \/ FetchPart
    \/ BeginSub
    \/ SkipCopyEntry
    \/ FileEntry
    \/ EndSub
    \/ Finalize
    \/ Cancel
    \/ Retry

(***************************************************************************)
(* One FetchPart exchange: the version and object-store negotiation        *)
(* between Service::processQueryPart and Fetcher::fetchPart                *)
(***************************************************************************)
MaxAnnounced == 2     \* the file counts a part stream announces range over 0..MaxAnnounced
MaxVersion == 8       \* client_protocol_version ranges over 0..MaxVersion

REPLICATION_PROTOCOL_VERSION_WITH_PARTS_SIZE == 1
REPLICATION_PROTOCOL_VERSION_WITH_PARTS_SIZE_AND_TTL_INFOS == 2
REPLICATION_PROTOCOL_VERSION_WITH_PARTS_TYPE == 3
REPLICATION_PROTOCOL_VERSION_WITH_PARTS_UUID == 5
REPLICATION_PROTOCOL_VERSION_WITH_PARTS_S3_COPY == 6
REPLICATION_PROTOCOL_VERSION_WITH_PARTS_PROJECTION == 7

Versions == 0..MaxVersion

\* std::min
Min2(a, b) == IF a <= b THEN a ELSE b

\* toString(int) and parse<int>(String) on the versions in use
toString(n) == ToString(n)

parseInt(s) == CHOOSE n \in 0..(MaxVersion + 1) : toString(n) = s

NoCookies == [name \in {} |-> ""]

\* params.get(name, default), in.getResponseCookie(name, default)
get(map, name, default) == IF name \in DOMAIN map THEN map[name] ELSE default

\* a field of the response body; value carries the part type
Field(field, value) == [field |-> field, value |-> value]

FieldNames(fields) == [i \in DOMAIN fields |-> fields[i].field]

\* variant that writes the uuid from protocol 4 on
C11_Mutant_WrittenHeader(client_protocol_version, part_type) ==
    (IF client_protocol_version >= 1 THEN <<Field("total_size", "")>> ELSE <<>>)
    \o (IF client_protocol_version >= 2 THEN <<Field("ttl_infos", "")>> ELSE <<>>)
    \o (IF client_protocol_version >= 3 THEN <<Field("part_type", part_type)>> ELSE <<>>)
    \o (IF client_protocol_version >= 4 THEN <<Field("uuid", "")>> ELSE <<>>)

\* the header fields Service::processQueryPart writes before the part
WrittenHeader(client_protocol_version, part_type) ==
    (IF client_protocol_version >= REPLICATION_PROTOCOL_VERSION_WITH_PARTS_SIZE
     THEN <<Field("total_size", "")>> ELSE <<>>)
    \o (IF client_protocol_version >= REPLICATION_PROTOCOL_VERSION_WITH_PARTS_SIZE_AND_TTL_INFOS
        THEN <<Field("ttl_infos", "")>> ELSE <<>>)
    \o (IF client_protocol_version >= REPLICATION_PROTOCOL_VERSION_WITH_PARTS_TYPE
        THEN <<Field("part_type", part_type)>> ELSE <<>>)
    \o (IF client_protocol_version >= REPLICATION_PROTOCOL_VERSION_WITH_PARTS_UUID
        THEN <<Field("uuid", "")>> ELSE <<>>)

\* variant that does not look at the disk the part is on
C18_Mutant_ServerUsesS3Copy(allow_remote_fs_zero_copy_replication, client_protocol_version, params, source_disk) ==
    /\ allow_remote_fs_zero_copy_replication
    /\ client_protocol_version >= REPLICATION_PROTOCOL_VERSION_WITH_PARTS_S3_COPY
    /\ parseInt(get(params, "send_s3_metadata", "0")) = 1

\* bool try_use_s3_copy of processQueryPart
ServerUsesS3Copy(allow_remote_fs_zero_copy_replication, client_protocol_version, params, source_disk) ==
    /\ allow_remote_fs_zero_copy_replication
    /\ client_protocol_version >= REPLICATION_PROTOCOL_VERSION_WITH_PARTS_S3_COPY
    /\ parseInt(get(params, "send_s3_metadata", "0")) = 1
    /\ source_disk = "S3"

\* what follows the header: the object-store metadata, or the projection
\* count and the part stream; sendPartFromDisk writes a skip-copy section
\* (skip_copy_count and the header-only entries) iff incrementally
WrittenBody(client_protocol_version, try_use_s3_copy, part_type, incrementally) ==
    LET part == IF part_type = "InMemory" THEN Field("part_from_memory", "")
                ELSE Field("part_from_disk", IF incrementally THEN "skip_copy" ELSE "")
    IN  IF try_use_s3_copy THEN <<Field("s3_metadata", "")>>
        ELSE IF client_protocol_version >= REPLICATION_PROTOCOL_VERSION_WITH_PARTS_PROJECTION
        THEN <<Field("projections", ""), part>>
        ELSE <<part>>

\* the response of Service::processQueryPart to one request that passes
\* admission (a single exchange: both send counters are 0)
processQueryPart(params, server) ==
    LET client_protocol_version == parseInt(get(params, "client_protocol_version", "0"))
        incrementally == get(params, "fetch_part_incrementally", "false") = "true"
        cookies == ("server_protocol_version" :>
                        toString(Min2(client_protocol_version,
                                      REPLICATION_PROTOCOL_VERSION_WITH_PARTS_PROJECTION)))
                   @@ (IF incrementally THEN "fetch_part_incrementally" :> "true"
                       ELSE NoCookies)
        try_use_s3_copy ==
            ServerUsesS3Copy(server.allow_remote_fs_zero_copy_replication,
                             client_protocol_version, params, server.source_disk)
    IN  IF ~server.has_part
        THEN [status |-> 500, cookies |-> cookies, out |-> <<>>, header |-> <<>>,
              s3_metadata |-> FALSE]
        ELSE [status |-> 200,
              cookies |-> IF try_use_s3_copy
                          THEN ("send_s3_metadata" :> "1") @@ cookies ELSE cookies,
              out |-> WrittenHeader(client_protocol_version, server.part_type)
                      \o WrittenBody(client_protocol_version, try_use_s3_copy,
                                     server.part_type, incrementally),
              header |-> WrittenHeader(client_protocol_version, server.part_type),
              s3_metadata |-> try_use_s3_copy]

\* the responses of a replica that does not run this code
ForgedResponses ==
    {[status |-> 200,
      cookies |-> ("server_protocol_version" :> toString(c))
                  @@ (IF s3 THEN "send_s3_metadata" :> "1" ELSE NoCookies)
                  @@ (IF incrementally = "absent" THEN NoCookies
                      ELSE "fetch_part_incrementally" :> incrementally),
      out |-> WrittenHeader(w, type) \o WrittenBody(w, body_s3, type, FALSE),
      header |-> WrittenHeader(w, type),
      s3_metadata |-> body_s3] :
        c \in Versions, w \in {0, REPLICATION_PROTOCOL_VERSION_WITH_PARTS_PROJECTION},
        s3 \in BOOLEAN, body_s3 \in BOOLEAN, type \in {"Wide"},
        incrementally \in {"absent", "false", "true"}}

\* the two replicas of one exchange
Servers ==
    [peer : {"honest"},
     allow_remote_fs_zero_copy_replication : BOOLEAN,
     source_disk : {"S3", "Local"},
     part_type : {"Wide", "InMemory"},
     has_part : BOOLEAN]
    \cup
    [peer : {"forged"},
     allow_remote_fs_zero_copy_replication : {FALSE},
     source_disk : {"Local"},
     part_type : {"Wide"},
     has_part : {TRUE}]

Clients ==
    [client_protocol_version : Versions,
     allow_remote_fs_zero_copy_replication : BOOLEAN,
     s3_disks : BOOLEAN,                 \* data.getDisksByType(S3) is not empty
     try_use_s3_copy : BOOLEAN,
     disk_s3 : {"none", "S3", "Local"},
     old_version_part : BOOLEAN]

NoResponse ==
    [status |-> 0, cookies |-> NoCookies, out |-> <<>>, header |-> <<>>,
     s3_metadata |-> FALSE]

NoRequest == [pc |-> "idle", params |-> NoCookies, response |-> NoResponse]

\* the locals of Fetcher::fetchPart; depth counts the recursive calls
IdleFetcher ==
    [pc |-> "idle", depth |-> 0, try_use_s3_copy |-> FALSE, disk_s3 |-> "none",
     disks_s3 |-> FALSE, old_version_part |-> FALSE, server_protocol_version |-> 0,
     send_s3 |-> 0, in |-> <<>>, read |-> <<>>, part_type |-> "Wide",
     download |-> "none", s3_outcome |-> "none", error |-> "none"]

IdleExchange ==
    exchange = [client |-> [client_protocol_version |-> 0,
                            allow_remote_fs_zero_copy_replication |-> FALSE,
                            s3_disks |-> FALSE, try_use_s3_copy |-> FALSE,
                            disk_s3 |-> "none", old_version_part |-> FALSE],
                server |-> [peer |-> "honest",
                            allow_remote_fs_zero_copy_replication |-> FALSE,
                            source_disk |-> "Local", part_type |-> "Wide",
                            has_part |-> FALSE],
                http |-> NoRequest,
                fetcher |-> IdleFetcher]

\* fetchPart is called with try_use_s3_copy, disk_s3 and incrementally
InitExchange ==
    exchange \in
        {[client |-> c, server |-> s, http |-> NoRequest,
          fetcher |-> [IdleFetcher EXCEPT !.pc = "start",
                                          !.try_use_s3_copy = c.try_use_s3_copy,
                                          !.disk_s3 = c.disk_s3,
                                          !.old_version_part = c.old_version_part]] :
            c \in Clients, s \in Servers}

SetExchange(http, fetcher) ==
    /\ exchange' = [exchange EXCEPT !.http = http, !.fetcher = fetcher]
    /\ UNCHANGED <<sendVars, fetchVars, eagerVars, materialize, gate, stream>>

\* throw Exception(..., code)
Throw(fetcher, code) == [fetcher EXCEPT !.pc = "done", !.error = code]

\* fetchPart up to the construction of the HTTP buffer: the request
SendRequest ==
    LET f == exchange.fetcher
        c == exchange.client
    IN  /\ f.pc = "start"
        /\ \E cancelled \in BOOLEAN :
            IF cancelled
            THEN SetExchange(exchange.http, Throw(f, "ABORTED"))
            ELSE IF f.try_use_s3_copy /\ f.disk_s3 = "Local"
            THEN SetExchange(exchange.http, Throw(f, "LOGICAL_ERROR"))
            ELSE LET allowed == f.try_use_s3_copy /\ c.allow_remote_fs_zero_copy_replication
                     disks_s3 == allowed /\ (f.disk_s3 = "S3" \/ c.s3_disks)
                     try_use_s3_copy == allowed /\ disks_s3
                     params ==
                         ("client_protocol_version" :> toString(c.client_protocol_version))
                         @@ ("fetch_part_incrementally" :>
                                 IF f.old_version_part THEN "true" ELSE "false")
                         @@ (IF try_use_s3_copy THEN "send_s3_metadata" :> "1"
                             ELSE NoCookies)
                 IN  SetExchange([pc |-> "request", params |-> params,
                                  response |-> NoResponse],
                                 [f EXCEPT !.pc = "wait",
                                           !.try_use_s3_copy = try_use_s3_copy,
                                           !.disks_s3 = disks_s3])

\* the replica answers; the HTTP buffer throws on a status that is not 200
Respond ==
    LET f == exchange.fetcher
        h == exchange.http
    IN  /\ f.pc = "wait"
        /\ h.pc = "request"
        /\ \E response \in (IF exchange.server.peer = "honest"
                            THEN {processQueryPart(h.params, exchange.server)}
                            ELSE ForgedResponses) :
              SetExchange([h EXCEPT !.pc = "response", !.response = response],
                          IF response.status = 200
                          THEN [f EXCEPT !.pc = "cookies", !.in = response.out]
                          ELSE Throw(f, "RECEIVED_ERROR_FROM_REMOTE_IO_SERVER"))

\* the cookies of the response decide the mode of the fetch
ReadCookies ==
    LET f == exchange.fetcher
        cookies == exchange.http.response.cookies
        server_protocol_version == parseInt(get(cookies, "server_protocol_version", "0"))
        fetch_part_incrementally == get(cookies, "fetch_part_incrementally", "false")
        send_s3 == parseInt(get(cookies, "send_s3_metadata", "0"))
        g == [f EXCEPT !.server_protocol_version = server_protocol_version,
                       !.send_s3 = send_s3,
                       !.old_version_part = @ /\ fetch_part_incrementally # "false"]
    IN  /\ f.pc = "cookies"
        /\ SetExchange(exchange.http,
              IF send_s3 = 1
              THEN IF server_protocol_version < REPLICATION_PROTOCOL_VERSION_WITH_PARTS_S3_COPY
                   THEN Throw(g, "LOGICAL_ERROR")
                   ELSE IF ~f.try_use_s3_copy THEN Throw(g, "LOGICAL_ERROR")
                   ELSE [g EXCEPT !.pc = "s3_header"]
              ELSE [g EXCEPT !.pc = "header"])

\* readBinary and its siblings take the next fields of the stream; a field
\* of another kind is read as garbage
Reads(in, fields) ==
    /\ Len(in) >= Len(fields)
    /\ \A i \in DOMAIN fields : in[i].field = fields[i]

ReadFields(f, fields) ==
    IF Reads(f.in, fields)
    THEN [f EXCEPT !.read = @ \o fields,
                   !.in = SubSeq(@, Len(fields) + 1, Len(@)),
                   !.part_type =
                       IF \E i \in DOMAIN fields : fields[i] = "part_type"
                       THEN f.in[CHOOSE i \in DOMAIN fields : fields[i] = "part_type"].value
                       ELSE @]
    ELSE Throw(f, "GARBAGE")

\* the fields fetchPart reads in object-store mode
S3HeaderFields(server_protocol_version) ==
    <<"total_size", "ttl_infos", "part_type">>
    \o (IF server_protocol_version >= REPLICATION_PROTOCOL_VERSION_WITH_PARTS_UUID
        THEN <<"uuid">> ELSE <<>>)

ReadS3Header ==
    LET f == exchange.fetcher
        g == ReadFields(f, S3HeaderFields(f.server_protocol_version))
    IN  /\ f.pc = "s3_header"
        /\ SetExchange(exchange.http,
              IF g.error # "none" THEN g
              ELSE IF g.part_type = "InMemory" THEN Throw(g, "INCORRECT_PART_TYPE")
              ELSE [g EXCEPT !.pc = "s3_download"])

\* how downloadPartToS3 ends
S3Outcomes ==
    {"ok", "S3_ERROR", "LOGICAL_ERROR", "DIRECTORY_ALREADY_EXISTS", "ABORTED",
     "CHECKSUM_DOESNT_MATCH"}

\* variant that retries after every failure of downloadPartToS3
C17_Mutant_RetriesWithoutS3Copy(code) == code # "ok"

\* catch (const Exception & e) { if (e.code() != ErrorCodes::S3_ERROR) throw; ...
RetriesWithoutS3Copy(code) == code = "S3_ERROR"

\* return downloadPartToS3(...), or on S3_ERROR the recursive
\* fetchPart(..., nullptr, false, nullptr, incrementally)
DownloadPartToS3 ==
    LET f == exchange.fetcher
    IN  /\ f.pc = "s3_download"
        /\ \E code \in S3Outcomes :
              (code = "ok" => Reads(f.in, <<"s3_metadata">>) /\ f.disks_s3)
              /\ (~f.disks_s3 => code = "LOGICAL_ERROR")
              /\ IF code = "ok"
                 THEN SetExchange(exchange.http,
                          [f EXCEPT !.pc = "done", !.download = "downloadPartToS3",
                                    !.s3_outcome = code, !.in = Tail(@)])
                 ELSE IF RetriesWithoutS3Copy(code)
                 THEN SetExchange(NoRequest,
                          [IdleFetcher EXCEPT !.pc = "start", !.depth = f.depth + 1,
                                              !.s3_outcome = code,
                                              !.old_version_part =
                                                  exchange.client.old_version_part])
                 ELSE SetExchange(exchange.http,
                          [Throw(f, code) EXCEPT !.s3_outcome = code])

\* variant that reads a skip-copy section from every part stream
C35_Mutant_ParsesSkipCopy(fetcher) == fetcher.download = "downloadPartToDisk"

\* downloadBaseOrProjectionPartToDisk reads a skip-copy section from the part
\* stream iff it is given a prior version of the part
ParsesSkipCopy(fetcher) ==
    fetcher.download = "downloadPartToDisk" /\ fetcher.old_version_part

\* the fields fetchPart reads in normal mode
HeaderFields(server_protocol_version) ==
    (IF server_protocol_version >= REPLICATION_PROTOCOL_VERSION_WITH_PARTS_SIZE
     THEN <<"total_size">>
          \o (IF server_protocol_version
                    >= REPLICATION_PROTOCOL_VERSION_WITH_PARTS_SIZE_AND_TTL_INFOS
              THEN <<"ttl_infos">> ELSE <<>>)
     ELSE <<>>)
    \o (IF server_protocol_version >= REPLICATION_PROTOCOL_VERSION_WITH_PARTS_TYPE
        THEN <<"part_type">> ELSE <<>>)
    \o (IF server_protocol_version >= REPLICATION_PROTOCOL_VERSION_WITH_PARTS_UUID
        THEN <<"uuid">> ELSE <<>>)

ReadHeader ==
    LET f == exchange.fetcher
        g == ReadFields(f, HeaderFields(f.server_protocol_version))
    IN  /\ f.pc = "header"
        /\ SetExchange(exchange.http,
              IF g.error # "none" THEN g ELSE [g EXCEPT !.pc = "projections"])

\* size_t projections = 0; read for protocol 7; then the download
Download ==
    LET f == exchange.fetcher
        g == IF f.server_protocol_version
                  >= REPLICATION_PROTOCOL_VERSION_WITH_PARTS_PROJECTION
             THEN ReadFields(f, <<"projections">>) ELSE f
    IN  /\ f.pc = "projections"
        /\ SetExchange(exchange.http,
              IF g.error # "none" THEN g
              ELSE [g EXCEPT !.pc = "done",
                             !.download = IF g.part_type = "InMemory"
                                          THEN "downloadPartToMemory"
                                          ELSE "downloadPartToDisk"])

NextExchange ==
    \/ SendRequest
    \/ Respond
    \/ ReadCookies
    \/ ReadS3Header
    \/ DownloadPartToS3
    \/ ReadHeader
    \/ Download

(***************************************************************************)
(* The part directory of a fetch: the first steps of                       *)
(* Fetcher::downloadPartToDisk and Fetcher::downloadPartToS3               *)
(***************************************************************************)
\* strings whose characters matter are sequences of characters
Chars(name) == Range(name)

\* s.find_first_of(chars) != std::string::npos
FoundFirstOf(s, chars) == \E i \in DOMAIN s : s[i] \in chars

\* static const String TMP_PREFIX = "tmp-fetch_"
TmpFetchPrefix == <<"t", "m", "p", "-", "f", "e", "t", "c", "h", "_">>

\* the values of tmp_prefix_ and part_name considered
TmpPrefixes == {<<>>, <<"t", "_">>, <<"a", "/">>, <<".", ".">>}

FetchedPartNames == {<<"p">>, <<>>, <<"a", "/", "p">>, <<"p", ".", "1">>}

\* String tmp_prefix = tmp_prefix_.empty() ? TMP_PREFIX : tmp_prefix_
EffectivePrefix(tmp_prefix_) == IF tmp_prefix_ = <<>> THEN TmpFetchPrefix ELSE tmp_prefix_

\* String(to_detached ? "detached/" : "") + tmp_prefix + part_name
PartRelativePath(to_detached, tmp_prefix, part_name) ==
    (IF to_detached THEN <<"d", "e", "t", "a", "c", "h", "e", "d", "/">> ELSE <<>>)
    \o tmp_prefix \o part_name

\* no download function is running
IdleMaterialize ==
    materialize = [function |-> "none", pc |-> "idle", tmp_prefix_ |-> <<>>,
                   part_name |-> <<>>, to_detached |-> FALSE, disks_s3 |-> FALSE,
                   exists |-> FALSE, removed |-> FALSE, created |-> <<>>,
                   error |-> "none", projections |-> 0, old_version_part |-> FALSE,
                   level |-> "none", files |-> 0, skip_copy_files |-> 0,
                   announced |-> 0, received |-> 0, eof |-> FALSE, part |-> FALSE]

\* a download function is entered; exists tells whether the disk has the
\* directory the arguments name, disks_s3 whether the list of disks is not
\* empty; projections and old_version_part are arguments of downloadPartToDisk.
\* announced and received count the entries the stream has announced and the
\* entries accepted, eof tells that assertEOF has returned, part that
\* data.createPart has been called.
InitMaterialize ==
    /\ materialize \in
        [function : {"downloadPartToDisk", "downloadPartToS3"}, pc : {"entered"},
         tmp_prefix_ : TmpPrefixes, part_name : FetchedPartNames,
         to_detached : BOOLEAN, disks_s3 : BOOLEAN, exists : BOOLEAN,
         removed : {FALSE}, created : {<<>>}, error : {"none"},
         projections : 0..MaxProjections, old_version_part : BOOLEAN,
         level : {"none"}, files : {0}, skip_copy_files : {0},
         announced : {0}, received : {0}, eof : {FALSE}, part : {FALSE}]
    /\ materialize.function = "downloadPartToS3"
          => materialize.projections = 0 /\ ~materialize.old_version_part

SetMaterialize(m) ==
    /\ materialize' = m
    /\ UNCHANGED <<sendVars, fetchVars, eagerVars, exchange, gate, stream>>

\* downloadPartToDisk: "We will remove directory if it's already exists.
\* Make precautions."
CheckNames ==
    LET m == materialize
        tmp_prefix == EffectivePrefix(m.tmp_prefix_)
    IN  /\ m.function = "downloadPartToDisk"
        /\ m.pc = "entered"
        /\ SetMaterialize(
              IF \/ tmp_prefix = <<>>
                 \/ m.part_name = <<>>
                 \/ FoundFirstOf(tmp_prefix, {"/", "."})
                 \/ FoundFirstOf(m.part_name, {"/", "."})
              THEN [m EXCEPT !.pc = "done", !.error = "LOGICAL_ERROR"]
              ELSE [m EXCEPT !.pc = "exists"])

\* downloadPartToDisk: if (disk->exists(part_download_path))
\* disk->removeRecursive(part_download_path)
RemoveExisting ==
    LET m == materialize
    IN  /\ m.function = "downloadPartToDisk"
        /\ m.pc = "exists"
        /\ SetMaterialize([m EXCEPT !.pc = "create", !.removed = m.exists,
                                    !.exists = FALSE])

\* downloadPartToS3: if (disks_s3.empty()) throw ...; the disk is chosen
PickDisk ==
    LET m == materialize
    IN  /\ m.function = "downloadPartToS3"
        /\ m.pc = "entered"
        /\ SetMaterialize(IF ~m.disks_s3
                          THEN [m EXCEPT !.pc = "done", !.error = "LOGICAL_ERROR"]
                          ELSE [m EXCEPT !.pc = "exists"])

\* downloadPartToS3: if (disk->exists(part_download_path)) throw ...
FailIfExists ==
    LET m == materialize
    IN  /\ m.function = "downloadPartToS3"
        /\ m.pc = "exists"
        /\ SetMaterialize(IF m.exists
                          THEN [m EXCEPT !.pc = "done",
                                         !.error = "DIRECTORY_ALREADY_EXISTS"]
                          ELSE [m EXCEPT !.pc = "create"])

\* disk->createDirectories(part_download_path), in both functions
CreateDirectories ==
    LET m == materialize
    IN  /\ m.pc = "create"
        /\ SetMaterialize(
              [m EXCEPT !.pc = IF m.function = "downloadPartToDisk"
                               THEN "subpart" ELSE "counts",
                        !.level = IF m.function = "downloadPartToDisk"
                                  THEN "none" ELSE "base",
                        !.exists = TRUE,
                        !.created = PartRelativePath(m.to_detached,
                                        EffectivePrefix(m.tmp_prefix_), m.part_name)])

\* the stream ends before the bytes a read asks for
ReadAfterEOF(m) == [m EXCEPT !.pc = "done", !.error = "ATTEMPT_TO_READ_AFTER_EOF"]

\* downloadPartToDisk: for (auto i = 0ul; i < projections; ++i) reads the
\* projection's name and downloads it; then "Download the base part"
NextSubPart ==
    LET m == materialize
    IN  /\ m.pc = "subpart"
        /\ IF m.projections > 0
           THEN \E name_read \in BOOLEAN :
                   SetMaterialize(
                      IF name_read
                      THEN [m EXCEPT !.pc = "counts", !.level = "projection",
                                     !.projections = @ - 1]
                      ELSE ReadAfterEOF(m))
           ELSE SetMaterialize([m EXCEPT !.pc = "counts", !.level = "base"])

\* readBinary(files, in), and with a prior part readBinary(skip_copy_files, in)
ReadFileCounts ==
    LET m == materialize
    IN  /\ m.pc = "counts"
        /\ \/ SetMaterialize(ReadAfterEOF(m))
           \/ \E files \in 0..MaxAnnounced :
                 \E skip_copy_files \in (IF m.old_version_part THEN 0..MaxAnnounced
                                         ELSE {0}) :
                    SetMaterialize(
                       [m EXCEPT !.pc = "entries", !.files = files,
                                 !.skip_copy_files = skip_copy_files,
                                 !.announced = @ + files + skip_copy_files])

\* the outcomes of one entry of the stream: it is read whole and its hash
\* matches; the stream ends inside it; the fetch is cancelled while it is
\* read; its hash does not match; its name leaves the part directory
EntryOutcomes == {"ok", "cut", "cancelled", "mismatch", "insecure"}

\* one skip-copy entry of downloadBaseOrProjectionPartToDisk: the file of
\* the prior part is hard-linked (createHardLink throws when it has no such
\* file); a cancelled fetch removes the part directory
LinkSkipCopyFile ==
    LET m == materialize
    IN  /\ m.pc = "entries"
        /\ m.skip_copy_files > 0
        /\ \E outcome \in {"ok", "cut", "no_source", "cancelled"} :
              SetMaterialize(
                 IF outcome = "cut" THEN ReadAfterEOF(m)
                 ELSE IF outcome = "no_source"
                 THEN [m EXCEPT !.pc = "done", !.error = "CANNOT_LINK"]
                 ELSE IF outcome = "cancelled"
                 THEN [m EXCEPT !.pc = "done", !.error = "ABORTED", !.exists = FALSE]
                 ELSE [m EXCEPT !.skip_copy_files = @ - 1, !.received = @ + 1])

\* one file frame: of downloadBaseOrProjectionPartToDisk, or of the loop of
\* downloadPartToS3 (which has no path check); a cancelled fetch removes the
\* part directory
DownloadFile ==
    LET m == materialize
    IN  /\ m.pc = "entries"
        /\ m.skip_copy_files = 0
        /\ m.files > 0
        /\ \E outcome \in EntryOutcomes :
              /\ outcome = "insecure" => m.function = "downloadPartToDisk"
              /\ SetMaterialize(
                    IF outcome = "cut" THEN ReadAfterEOF(m)
                    ELSE IF outcome = "insecure"
                    THEN [m EXCEPT !.pc = "done", !.error = "INSECURE_PATH"]
                    ELSE IF outcome = "cancelled"
                    THEN [m EXCEPT !.pc = "done", !.error = "ABORTED",
                                   !.exists = FALSE]
                    ELSE IF outcome = "mismatch"
                    THEN [m EXCEPT !.pc = "done", !.error = "CHECKSUM_DOESNT_MATCH"]
                    ELSE [m EXCEPT !.files = @ - 1, !.received = @ + 1])

\* the loops of a (sub-)part are over: the next projection or the base part
\* follows a projection, assertEOF follows the base part
EndOfEntries ==
    LET m == materialize
    IN  /\ m.pc = "entries"
        /\ m.skip_copy_files = 0
        /\ m.files = 0
        /\ SetMaterialize([m EXCEPT !.pc = IF m.level = "projection"
                                           THEN "subpart" ELSE "eof"])

\* variant that does not test the end of the stream
C36_Mutant_AssertEOF ==
    /\ materialize.pc = "eof"
    /\ SetMaterialize([materialize EXCEPT !.pc = "create_part"])

\* assertEOF(in)
AssertEOF ==
    LET m == materialize
    IN  /\ m.pc = "eof"
        /\ \E at_eof \in BOOLEAN :
              SetMaterialize(
                 IF at_eof THEN [m EXCEPT !.pc = "create_part", !.eof = TRUE]
                 ELSE [m EXCEPT !.pc = "done", !.error = "CANNOT_READ_ALL_DATA"])

\* what loadColumnsChecksumsIndexes and, in downloadPartToDisk, checkEqual
\* can throw after the part object exists
LoadOutcomes(function) ==
    {"none", "NO_FILE_IN_DATA_PART"}
    \cup (IF function = "downloadPartToDisk" THEN {"CHECKSUM_DOESNT_MATCH"} ELSE {})

\* data.createPart(part_name, volume, part_relative_path) and the rest of
\* the function
CreatePart ==
    LET m == materialize
    IN  /\ m.pc = "create_part"
        /\ \E code \in LoadOutcomes(m.function) :
              SetMaterialize([m EXCEPT !.pc = "done", !.part = TRUE, !.error = code])

NextMaterialize ==
    \/ CheckNames
    \/ RemoveExisting
    \/ PickDisk
    \/ FailIfExists
    \/ CreateDirectories
    \/ NextSubPart
    \/ ReadFileCounts
    \/ LinkSkipCopyFile
    \/ DownloadFile
    \/ EndOfEntries
    \/ AssertEOF
    \/ CreatePart

(***************************************************************************)
(* Eager aggregation: EagerAggregation.cpp                                 *)
(* Plans are trees of records; every node has type, id and children.       *)
(***************************************************************************)

\* ---- names -------------------------------------------------------------
\* std::sort on Names and the iteration of std::set<String> follow the
\* byte order of the strings; this is the order of the symbols in use
SymbolOrder ==
    <<"a", "b", "d", "e", "g", "inter#a", "inter#a_1", "inter#e", "inter#e_1",
      "inter#g", "inter#g_1", "inter#m", "inter#m_1", "inter#w", "inter#w_1",
      "inter#x", "inter#x_1", "inter#y", "inter#y_1", "m", "s1", "s2",
      "s3", "s4", "s5", "s6", "s7", "s8", "s9", "w", "x", "y">>

Position(name) == CHOOSE i \in DOMAIN SymbolOrder : SymbolOrder[i] = name

\* a set of names as the sorted sequence std::set / std::sort + unique gives
SortedUnique(names) == SelectSeq(SymbolOrder, LAMBDA n : n \in names)

\* SymbolAllocator::newSymbol(name_hint): the hint when it is free, else the
\* hint with a numeric suffix
newSymbol(used, name_hint) ==
    IF name_hint \notin used THEN name_hint ELSE name_hint \o "_1"

\* SymbolUtils::containsAll
containsAll(names, required) == required \subseteq names

\* ---- data types and aggregate functions --------------------------------
DataType(name) == [name |-> name, function |-> "", arguments |-> <<>>]

DataTypeAggregateFunction(function, arguments) ==
    [name |-> "AggregateFunction", function |-> function, arguments |-> arguments]

\* Poco::toLower on the function names in use
toLower(name) ==
    CASE name = "anyLast" -> "anylast"
      [] name = "sumWithOverflow" -> "sumwithoverflow"
      [] name = "groupBitAnd" -> "groupbitand"
      [] name = "groupBitOr" -> "groupbitor"
      [] name = "groupBitXor" -> "groupbitxor"
      [] name = "sumMap" -> "summap"
      [] name = "minMap" -> "minmap"
      [] name = "maxMap" -> "maxmap"
      [] name = "groupArrayArray" -> "grouparrayarray"
      [] name = "groupArrayLastArray" -> "grouparraylastarray"
      [] name = "groupUniqArrayArray" -> "groupuniqarrayarray"
      [] name = "sumMappedArrays" -> "summappedarrays"
      [] name = "minMappedArrays" -> "minmappedarrays"
      [] name = "maxMappedArrays" -> "maxmappedarrays"
      [] name = "uniqExact" -> "uniqexact"
      [] name = "uniqExactState" -> "uniqexactstate"
      [] name = "uniqExactMerge" -> "uniqexactmerge"
      [] name = "countState" -> "countstate"
      [] name = "countMerge" -> "countmerge"
      [] name = "multiIf" -> "multiif"
      [] OTHER -> name

simple_aggregate_functions ==
    {"any", "anyLast", "min", "max", "sum", "sumWithOverflow", "groupBitAnd",
     "groupBitOr", "groupBitXor", "sumMap", "minMap", "maxMap",
     "groupArrayArray", "groupArrayLastArray", "groupUniqArrayArray",
     "sumMappedArrays", "minMappedArrays", "maxMappedArrays"}

getClassOfAggFunc(name) ==
    IF toLower(name) \in simple_aggregate_functions THEN "BASIC"
    ELSE IF toLower(name) = "uniqexact" \/ toLower(name) = "count" THEN "NEED_MERGE"
    ELSE "UNKNOWN"

getStateName(func_name) == func_name \o "State"

\* variant that keeps the name of the function
C15_Mutant_getMergeName(func_name) == func_name

\* variant that names the accumulator instead of the merge sibling
C8_Mutant_getMergeName(func_name) == func_name \o "State"

getMergeName(func_name) == func_name \o "Merge"

\* the aggregate functions the factory knows here, and the combinators
BaseFunctions == {"sum", "min", "max", "count", "uniqExact", "avg", "anyLast"}

Combinators == {"", "State", "Merge"}

\* the (function, combinator) a registered name stands for
ParseFunctionName(name) ==
    LET known == {p \in BaseFunctions \X Combinators : p[1] \o p[2] = name}
    IN  IF known = {} THEN <<"", "">> ELSE CHOOSE p \in known : TRUE

\* the result type of a plain aggregate function
BaseReturnType(base, argument_types) ==
    CASE base \in {"min", "max", "anyLast"} -> argument_types[1]
      [] base = "avg" -> DataType("Float64")
      [] OTHER -> DataType("UInt64")

NoFunction == [name |-> "exception", argument_types |-> <<>>, return_type |-> DataType("")]

\* AggregateFunctionFactory::instance().get(name, argument_types, ...):
\* -State returns the accumulator, -Merge takes one accumulator of the same
\* function and returns what the function returns; anything else throws
AggregateFunctionFactoryGet(name, argument_types) ==
    LET p == ParseFunctionName(name)
        made(t) == [name |-> name, argument_types |-> argument_types, return_type |-> t]
    IN  CASE p[1] = "" -> NoFunction
          [] p[2] = "State" ->
                made(DataTypeAggregateFunction(p[1], argument_types))
          [] p[2] = "Merge" ->
                IF /\ Len(argument_types) = 1
                   /\ argument_types[1].name = "AggregateFunction"
                   /\ argument_types[1].function = p[1]
                THEN made(BaseReturnType(p[1], argument_types[1].arguments))
                ELSE NoFunction
          [] OTHER ->
                IF p[1] = "count" \/ Len(argument_types) = 1
                THEN made(BaseReturnType(p[1], argument_types))
                ELSE NoFunction

\* AggregateDescription
AggregateDescription(function, argument_names, column_name) ==
    [function |-> function, argument_names |-> argument_names,
     column_name |-> column_name]

\* ---- expressions -------------------------------------------------------
ASTIdentifier(name) == [ast |-> "Identifier", name |-> name, value |-> 0, children |-> <<>>]

ASTLiteral(value) == [ast |-> "Literal", name |-> "", value |-> value, children |-> <<>>]

ASTFunction(name, arguments) ==
    [ast |-> "Function", name |-> name, value |-> 0, children |-> arguments]

Assignment(name, ast, type) == [name |-> name, ast |-> ast, type |-> type]

\* Utils::isIdentity
isIdentity(assignment) ==
    assignment.ast.ast = "Identifier" /\ assignment.ast.name = assignment.name

\* SymbolsExtractor::extract
RECURSIVE extract(_)
extract(ast) ==
    IF ast.ast = "Identifier" THEN {ast.name}
    ELSE UNION {extract(ast.children[i]) : i \in DOMAIN ast.children}

\* SymbolMapper::simpleMapper(mapping).map on a name, on names, on an AST
MapName(mapping, name) == IF name \in DOMAIN mapping THEN mapping[name] ELSE name

MapNames(mapping, names) == [i \in DOMAIN names |-> MapName(mapping, names[i])]

RECURSIVE MapAst(_, _)
MapAst(mapping, ast) ==
    IF ast.ast = "Identifier" THEN ASTIdentifier(MapName(mapping, ast.name))
    ELSE [ast EXCEPT !.children = [i \in DOMAIN ast.children |-> MapAst(mapping, ast.children[i])]]

\* Assignments::contains / at
AssignmentNames(assignments) == {assignments[i].name : i \in DOMAIN assignments}

AssignmentAt(assignments, name) ==
    assignments[CHOOSE i \in DOMAIN assignments : assignments[i].name = name]

\* ---- plan nodes --------------------------------------------------------
NoNode == [type |-> "none", id |-> 0, children |-> <<>>]

TableScanNode(id, table, names) ==
    [type |-> "TableScan", id |-> id, table |-> table, names |-> names,
     children |-> <<>>]

\* the attributes of a JoinStep besides its keys and its filter
JoinStep(kind, strictness, distribution_type, join_algorithm, hints) ==
    [kind |-> kind, strictness |-> strictness,
     distribution_type |-> distribution_type, join_algorithm |-> join_algorithm,
     hints |-> hints]

DefaultJoinStep == JoinStep("Inner", "All", "UNKNOWN", "AUTO", <<>>)

JoinNode(id, left_keys, right_keys, filter, left, right) ==
    [type |-> "Join", id |-> id, left_keys |-> left_keys,
     right_keys |-> right_keys, filter |-> filter, step |-> DefaultJoinStep,
     children |-> <<left, right>>]

WithJoinStep(join, step) == [join EXCEPT !.step = step]

ProjectionNode(id, assignments, child) ==
    [type |-> "Projection", id |-> id, assignments |-> assignments,
     children |-> <<child>>]

\* normal: AggregatingStep::isNormal()
AggregatingNode(id, keys, aggregates, normal, child) ==
    [type |-> "Aggregating", id |-> id, keys |-> keys, aggregates |-> aggregates,
     normal |-> normal, keys_not_hashed |-> {}, final |-> TRUE,
     children |-> <<child>>]

WithKeysNotHashed(aggregating, keys_not_hashed) ==
    [aggregating EXCEPT !.keys_not_hashed = keys_not_hashed]

\* getCurrentDataStream().header.getNames()
RECURSIVE OutputNames(_)
OutputNames(node) ==
    CASE node.type = "TableScan" -> node.names
      [] node.type = "Join" ->
            OutputNames(node.children[1]) \o OutputNames(node.children[2])
      [] node.type = "Projection" ->
            [i \in DOMAIN node.assignments |-> node.assignments[i].name]
      [] node.type = "Aggregating" ->
            node.keys \o [i \in DOMAIN node.aggregates |-> node.aggregates[i].column_name]
      [] OTHER -> <<>>

\* header.getNameSet()
OutputNameSet(node) == Range(OutputNames(node))

TypeOf(name_to_type, name) ==
    IF name \in DOMAIN name_to_type THEN name_to_type[name] ELSE DataType("missing")

\* getOutputNamesToTypes()
RECURSIVE OutputNamesToTypes(_)
OutputNamesToTypes(node) ==
    CASE node.type = "TableScan" -> [n \in Range(node.names) |-> DataType("UInt8")]
      [] node.type = "Join" ->
            OutputNamesToTypes(node.children[1]) @@ OutputNamesToTypes(node.children[2])
      [] node.type = "Projection" ->
            [n \in AssignmentNames(node.assignments) |->
                AssignmentAt(node.assignments, n).type]
      [] node.type = "Aggregating" ->
            LET below == OutputNamesToTypes(node.children[1])
                columns == {node.aggregates[i].column_name : i \in DOMAIN node.aggregates}
                of(c) == CHOOSE i \in DOMAIN node.aggregates : node.aggregates[i].column_name = c
            IN  [n \in columns |-> node.aggregates[of(n)].function.return_type]
                @@ [n \in Range(node.keys) |-> TypeOf(below, n)]
      [] OTHER -> <<>>

\* ---- decomposeAggJoin --------------------------------------------------
ArgumentsIn(names, aggregator) == containsAll(names, Range(aggregator.argument_names))

\* one argument, which is not a group-by key
SingleNonKeyArgument(group_by_keys, aggregator) ==
    /\ Len(aggregator.argument_names) = 1
    /\ aggregator.argument_names[1] \notin group_by_keys

decomposeAggJoin(agg_descs, keys, names_from_left, names_from_right) ==
    LET group_by_keys == Range(keys)
    IN  [ok |-> /\ \A i \in DOMAIN agg_descs :
                      getClassOfAggFunc(agg_descs[i].function.name) # "UNKNOWN"
                /\ group_by_keys \subseteq (names_from_left \cup names_from_right),
         s1 |-> SelectSeq(agg_descs, LAMBDA g :
                    /\ ArgumentsIn(names_from_left, g)
                    /\ SingleNonKeyArgument(group_by_keys, g)),
         s2 |-> SelectSeq(agg_descs, LAMBDA g :
                    /\ ~ArgumentsIn(names_from_left, g)
                    /\ ArgumentsIn(names_from_right, g)
                    /\ SingleNonKeyArgument(group_by_keys, g)),
         composed_aggregates |-> SelectSeq(agg_descs, LAMBDA g :
                    /\ ~ArgumentsIn(names_from_left, g)
                    /\ ~ArgumentsIn(names_from_right, g)),
         g1 |-> SelectSeq(keys, LAMBDA k : k \in names_from_left),
         g2 |-> SelectSeq(keys, LAMBDA k :
                    k \notin names_from_left /\ k \in names_from_right)]

\* ---- decomposeProjection -----------------------------------------------
\* the identifier x of multiIf(c, x, ...) bound to the only argument of a
\* composed aggregate, or "" when the aggregate is not of this form
DecomposedArgument(assignments, agg_desc) ==
    IF Len(agg_desc.argument_names) = 1
       /\ agg_desc.argument_names[1] \in AssignmentNames(assignments)
    THEN LET ast == AssignmentAt(assignments, agg_desc.argument_names[1]).ast
         IN  IF /\ ast.ast = "Function"
                /\ toLower(ast.name) = "multiif"
                /\ Len(ast.children) > 2
                /\ ast.children[2].ast = "Identifier"
             THEN ast.children[2].name
             ELSE ""
    ELSE ""

\* one iteration of the deep-parse loop over the composed aggregates
DeepParseStep(p, assignments, agg_desc, group_by_keys, names_from_left, names_from_right) ==
    LET x == DecomposedArgument(assignments, agg_desc)
        inter == newSymbol(p.symbols, "inter#" \o x)
        desc == [agg_desc EXCEPT !.argument_names = <<x>>, !.column_name = inter]
    IN  IF \/ x = ""
           \/ x \in DOMAIN p.from_left
           \/ x \in DOMAIN p.from_right
           \/ x \in group_by_keys
        THEN p
        ELSE [p EXCEPT
                !.symbols = @ \cup {inter},
                !.introduced = Append(@, inter),
                !.deep_parse_success = TRUE,
                !.s1 = IF x \in names_from_left THEN Append(@, desc) ELSE @,
                !.from_left = IF x \in names_from_left THEN (x :> inter) @@ @ ELSE @,
                !.s2 = IF x \in names_from_right THEN Append(@, desc) ELSE @,
                !.from_right = IF x \in names_from_right THEN (x :> inter) @@ @ ELSE @]

RECURSIVE DeepParse(_, _, _, _, _, _)
DeepParse(p, assignments, composed, group_by_keys, names_from_left, names_from_right) ==
    IF composed = <<>> THEN p
    ELSE DeepParse(DeepParseStep(p, assignments, Head(composed), group_by_keys,
                                 names_from_left, names_from_right),
                   assignments, Tail(composed), group_by_keys,
                   names_from_left, names_from_right)

\* one iteration of the full-push loop over the assignments
FullPushStep(c, assignment, names_from_left, names_from_right) ==
    IF c.stop \/ isIdentity(assignment) THEN c
    ELSE LET symbols == extract(assignment.ast)
             left == c.left_cnt + (IF containsAll(names_from_left, symbols) THEN 1 ELSE 0)
             right == c.right_cnt +
                 (IF /\ ~containsAll(names_from_left, symbols)
                     /\ containsAll(names_from_right, symbols) THEN 1 ELSE 0)
             counted == [c EXCEPT !.total_cnt = @ + 1, !.left_cnt = left,
                                  !.right_cnt = right]
         IN  IF left > 0 /\ right > 0 THEN [counted EXCEPT !.stop = TRUE]
             ELSE [counted EXCEPT
                     !.projection_require_symbols = @ \cup symbols,
                     !.projection_gene_symbols = @ \cup {assignment.name}]

RECURSIVE FullPush(_, _, _, _)
FullPush(c, assignments, names_from_left, names_from_right) ==
    IF assignments = <<>> THEN c
    ELSE FullPush(FullPushStep(c, Head(assignments), names_from_left, names_from_right),
                  Tail(assignments), names_from_left, names_from_right)

\* p holds s1, s2 and the allocator's symbols on entry
decomposeProjection(p, assignments, composed_aggregates, group_by_keys, names_from_left, names_from_right) ==
    LET deep == DeepParse(p, assignments, composed_aggregates, group_by_keys,
                          names_from_left, names_from_right)
        c == FullPush([left_cnt |-> 0, right_cnt |-> 0, total_cnt |-> 0, stop |-> FALSE,
                       projection_require_symbols |-> {},
                       projection_gene_symbols |-> {}],
                      assignments, names_from_left, names_from_right)
        copied == SelectSeq(composed_aggregates, LAMBDA g :
                      g.argument_names[1] \in AssignmentNames(assignments))
    IN  IF deep.deep_parse_success THEN [deep EXCEPT !.ok = TRUE]
        ELSE IF c.left_cnt # c.total_cnt /\ c.right_cnt # c.total_cnt
        THEN [deep EXCEPT !.ok = FALSE]
        ELSE [deep EXCEPT
                !.ok = TRUE,
                !.projection_require_symbols = c.projection_require_symbols,
                !.projection_gene_symbols = c.projection_gene_symbols,
                !.s1 = IF c.left_cnt > 0 THEN @ \o copied ELSE @,
                !.s2 = IF c.right_cnt > 0 THEN @ \o copied ELSE @]

\* ---- updateAggS0AndG0 --------------------------------------------------
updateAggS0AndG0(names_from_one_side, projection_gene_symbols, s0, g0) ==
    LET names == names_from_one_side \cup projection_gene_symbols
    IN  [invalid |-> \E i \in DOMAIN s0 :
                        \/ getClassOfAggFunc(s0[i].function.name) = "UNKNOWN"
                        \/ Len(s0[i].argument_names) # 1
                        \/ ~containsAll(names, Range(s0[i].argument_names)),
         descriptions |-> s0,
         keys |-> SelectSeq(g0, LAMBDA k : k \in names)]

\* ---- determineBottomJoin -----------------------------------------------
\* LocalGroupByTarget
LocalGroupByTarget(bottom_join, index, aggs, keys, join_layer, push_through) ==
    [bottom_join |-> bottom_join, bottom_join_child_index |-> index,
     aggs |-> aggs, keys |-> keys, join_layer |-> join_layer,
     push_through_final_projection |-> push_through]

NonIdentityNames(assignments) ==
    LET kept == SelectSeq(assignments, LAMBDA a : ~isIdentity(a))
    IN  [i \in DOMAIN kept |-> kept[i].name]

\* name -> its single origin symbol for the non-identity assignments of a
\* projection; empty as soon as one of them has not exactly one symbol
ProjExprToOriginColumn(assignments) ==
    LET kept == SelectSeq(assignments, LAMBDA a : ~isIdentity(a))
    IN  IF \E i \in DOMAIN kept : Cardinality(extract(kept[i].ast)) # 1
        THEN <<>>
        ELSE [n \in {kept[i].name : i \in DOMAIN kept} |->
                 CHOOSE s \in extract(AssignmentAt(kept, n).ast) : TRUE]

\* the names a join needs from its inputs: its keys and its filter's symbols
JoinRequires(join) ==
    extract(join.filter) \cup Range(join.left_keys) \cup Range(join.right_keys)

\* result.emplace(join->getId(), ...) of a finalized candidate
CollectTarget(e, st, require_output_names, join, index, s0, g0, join_layer, proj_expr_to_origin_column) ==
    LET child == join.children[index + 1]
        c1 == OutputNames(child) \o
              (IF e.projection_gene_symbols = {} THEN <<>>
               ELSE NonIdentityNames(e.projection.assignments))
        required == require_output_names \cup e.init_require_output_names
        renamed == DOMAIN proj_expr_to_origin_column \cap required
        require == (required \ renamed)
                   \cup {proj_expr_to_origin_column[n] : n \in renamed}
        global_agg_needs ==
            UNION {{s0[i].column_name} \cup Range(s0[i].argument_names) : i \in DOMAIN s0}
        kept == SelectSeq(c1, LAMBDA v :
                    /\ v \in require
                    /\ (s0 = <<>> \/ v \notin DOMAIN e.global_argument_name_to_local)
                    /\ v \notin global_agg_needs)
        target == LocalGroupByTarget(join, index, s0,
                                     SortedUnique(Range(g0) \cup Range(kept)),
                                     join_layer,
                                     DOMAIN proj_expr_to_origin_column # {})
    IN  IF join.id \in DOMAIN st.result THEN st
        ELSE [st EXCEPT !.result = (join.id :> target) @@ @]

RECURSIVE find_bottom_join(_, _, _, _, _, _, _, _, _)
\* variant that explores the right child whatever the left child recorded
C27_Mutant_ExploreBoth(e, st, require_output_names, join, s0, g0, join_layer, proj_expr_to_origin_column, gene, try_left, try_right) ==
    LET left == updateAggS0AndG0(OutputNameSet(join.children[1]), gene, s0, g0)
        right == updateAggS0AndG0(OutputNameSet(join.children[2]), gene, s0, g0)
        after_left ==
            IF try_left /\ ~left.invalid
            THEN find_bottom_join(e, st, require_output_names, join, 0,
                                  left.descriptions, left.keys, join_layer,
                                  proj_expr_to_origin_column)
            ELSE st
    IN  IF try_right /\ ~right.invalid
        THEN find_bottom_join(e, after_left, require_output_names, join, 1,
                              right.descriptions, right.keys, join_layer,
                              proj_expr_to_origin_column)
        ELSE after_left

\* variant that explores the right child first and the left child after it
C28_Mutant_ExploreBoth(e, st, require_output_names, join, s0, g0, join_layer, proj_expr_to_origin_column, gene, try_left, try_right) ==
    LET left == updateAggS0AndG0(OutputNameSet(join.children[1]), gene, s0, g0)
        right == updateAggS0AndG0(OutputNameSet(join.children[2]), gene, s0, g0)
        after_right ==
            IF try_right /\ ~right.invalid
            THEN find_bottom_join(e, st, require_output_names, join, 1,
                                  right.descriptions, right.keys, join_layer,
                                  proj_expr_to_origin_column)
            ELSE st
    IN  IF try_left /\ ~left.invalid
        THEN find_bottom_join(e, after_right, require_output_names, join, 0,
                              left.descriptions, left.keys, join_layer,
                              proj_expr_to_origin_column)
        ELSE after_right

\* the left child, then the right child if the left added no candidate
ExploreBoth(e, st, require_output_names, join, s0, g0, join_layer, proj_expr_to_origin_column, gene, try_left, try_right) ==
    LET left == updateAggS0AndG0(OutputNameSet(join.children[1]), gene, s0, g0)
        right == updateAggS0AndG0(OutputNameSet(join.children[2]), gene, s0, g0)
        after_left ==
            IF try_left /\ ~left.invalid
            THEN find_bottom_join(e, st, require_output_names, join, 0,
                                  left.descriptions, left.keys, join_layer,
                                  proj_expr_to_origin_column)
            ELSE st
    IN  IF DOMAIN after_left.result = DOMAIN st.result /\ try_right /\ ~right.invalid
        THEN find_bottom_join(e, after_left, require_output_names, join, 1,
                              right.descriptions, right.keys, join_layer,
                              proj_expr_to_origin_column)
        ELSE after_left

\* e: what the lambda captures; st: result and has_visit_first_join
find_bottom_join(e, st, require_output_names, join, index, s0, g0, join_layer, proj_expr_to_origin_column) ==
    LET child == join.children[index + 1]
        through ==
            IF /\ child.type = "Projection"
               /\ child.children[1].type = "Join"
               /\ DOMAIN proj_expr_to_origin_column = {}
            THEN ProjExprToOriginColumn(child.assignments)
            ELSE <<>>
        \* the log of the calls: the child explored and the number of
        \* candidates recorded before it
        entered == [st EXCEPT !.explored =
                       Append(@, [join |-> join.id, index |-> index,
                                  recorded |-> Cardinality(DOMAIN st.result)])]
    IN  IF DOMAIN through # {}
        THEN ExploreBoth(e, entered,
                         require_output_names \cup JoinRequires(child.children[1]),
                         child.children[1], s0, g0, join_layer, through,
                         e.projection_gene_symbols, TRUE, TRUE)
        ELSE IF child.type # "Join" \/ st.has_visit_first_join
        THEN CollectTarget(e, entered, require_output_names, join, index, s0, g0,
                           join_layer, proj_expr_to_origin_column)
        ELSE IF e.projection_require_symbols # {}
        THEN ExploreBoth(e,
                 [entered EXCEPT !.has_visit_first_join = @ \/ e.agg_push_down_every_join],
                 require_output_names \cup JoinRequires(child), child, s0, g0,
                 join_layer + 1, proj_expr_to_origin_column,
                 e.projection_gene_symbols,
                 containsAll(OutputNameSet(child.children[1]), e.projection_require_symbols),
                 containsAll(OutputNameSet(child.children[2]), e.projection_require_symbols))
        ELSE ExploreBoth(e,
                 [entered EXCEPT !.has_visit_first_join = @ \/ e.agg_push_down_every_join],
                 require_output_names \cup JoinRequires(child), child, s0, g0,
                 join_layer + 1, proj_expr_to_origin_column, {},
                 child.children[1].type # "Aggregating",
                 child.children[2].type # "Aggregating")

\* the state find_bottom_join leaves: result and the log of its calls
BottomJoinSearch(parent_of_first_join, projection, init_s0, init_g0, projection_require_symbols, projection_gene_symbols, init_require_output_names, global_argument_name_to_local, agg_push_down_every_join) ==
    find_bottom_join(
        [projection |-> projection,
         projection_require_symbols |-> projection_require_symbols,
         projection_gene_symbols |-> projection_gene_symbols,
         init_require_output_names |-> init_require_output_names,
         global_argument_name_to_local |-> global_argument_name_to_local,
         agg_push_down_every_join |-> agg_push_down_every_join],
        [result |-> <<>>, has_visit_first_join |-> FALSE, explored |-> <<>>],
        {}, parent_of_first_join, 0, init_s0, init_g0, 0, <<>>)

determineBottomJoin(parent_of_first_join, projection, init_s0, init_g0, projection_require_symbols, projection_gene_symbols, init_require_output_names, global_argument_name_to_local, agg_push_down_every_join) ==
    BottomJoinSearch(parent_of_first_join, projection, init_s0, init_g0,
                     projection_require_symbols, projection_gene_symbols,
                     init_require_output_names, global_argument_name_to_local,
                     agg_push_down_every_join).result

\* ---- canAggPushDown ----------------------------------------------------
\* what CardinalityEstimator::estimate answers for the chosen child
NoStatistics == [known |-> FALSE, row_count |-> 0, symbols |-> <<>>]

PlanNodeStatistics(row_count, symbols) ==
    [known |-> TRUE, row_count |-> row_count, symbols |-> symbols]

SymbolStatistics(unknown, ndv, nulls_count) ==
    [unknown |-> unknown, ndv |-> ndv, nulls_count |-> nulls_count]

Max2(a, b) == IF a >= b THEN a ELSE b

\* std::sort(..., std::greater<double>())
RECURSIVE SortDescending(_)
SortDescending(s) ==
    IF s = <<>> THEN <<>>
    ELSE LET i == CHOOSE j \in DOMAIN s : \A k \in DOMAIN s : s[j] >= s[k]
         IN  <<s[i]>> \o SortDescending(SubSeq(s, 1, i - 1) \o SubSeq(s, i + 1, Len(s)))

\* variant that does not count the nulls of a key as one more value
C24_Mutant_KeyCndvs(stats, keys) ==
    LET known == SelectSeq(keys, LAMBDA k :
                     /\ k \in DOMAIN stats.symbols
                     /\ ~stats.symbols[k].unknown
                     /\ stats.symbols[k].ndv > 0)
    IN  [i \in DOMAIN known |-> stats.symbols[known[i]].ndv]

\* the cndv of the keys whose statistics are known and whose ndv is positive
KeyCndvs(stats, keys) ==
    LET known == SelectSeq(keys, LAMBDA k :
                     /\ k \in DOMAIN stats.symbols
                     /\ ~stats.symbols[k].unknown
                     /\ stats.symbols[k].ndv > 0)
    IN  [i \in DOMAIN known |->
            stats.symbols[known[i]].ndv +
            (IF stats.row_count = 0 \/ stats.symbols[known[i]].nulls_count = 0
             THEN 0 ELSE 1)]

\* variant in which statistics without a known key are not a reason to reject
C26_Mutant_all_unknown(stats, keys) == FALSE

all_unknown(stats, keys) ==
    \A k \in Range(keys) : k \notin DOMAIN stats.symbols \/ stats.symbols[k].unknown

\* the estimated row count as the fraction num / den; the coefficient
\* multi_agg_keys_correlated_coefficient is given in hundredths
RECURSIVE EstimateRows(_, _, _, _, _, _, _)
EstimateRows(cndvs, i, num, den, child_rows, no_keys, coefficient) ==
    IF i > Len(cndvs) THEN [num |-> num, den |-> den]
    ELSE IF i = 1
    THEN EstimateRows(cndvs, 2, num * cndvs[1], den, child_rows, no_keys, coefficient)
    ELSE IF /\ ~no_keys
            /\ child_rows > 1000000
            /\ num * cndvs[i] > child_rows * den
            /\ cndvs[i] * 1000 < cndvs[1]
    THEN EstimateRows(cndvs, i + 1, num, den, child_rows, no_keys, coefficient)
    ELSE EstimateRows(cndvs, i + 1, num * Max2(100, coefficient * cndvs[i]),
                      den * 100, child_rows, no_keys, coefficient)

\* variant that consults the allow list before the block list
C25_Mutant_canAggPushDown(target, settings, bottom_stat) ==
    LET join_id == ToString(target.bottom_join.id)
        estimate == EstimateRows(SortDescending(KeyCndvs(bottom_stat, target.keys)), 1,
                                 1, 1, bottom_stat.row_count, target.keys = <<>>,
                                 settings.multi_agg_keys_correlated_coefficient)
        \* row_count = min(row_count, child rows), as a fraction
        clamped == IF estimate.num <= bottom_stat.row_count * estimate.den
                   THEN estimate
                   ELSE [num |-> bottom_stat.row_count, den |-> 1]
    IN  IF settings.eager_agg_join_id_whitelist # {}
        THEN (join_id \o "-" \o ToString(target.bottom_join_child_index))
                 \in settings.eager_agg_join_id_whitelist
        ELSE IF join_id \in settings.eager_agg_join_id_blocklist THEN FALSE
        ELSE IF bottom_stat.known
        THEN IF all_unknown(bottom_stat, target.keys) THEN FALSE
             ELSE IF settings.only_push_agg_with_functions /\ target.aggs = <<>>
             THEN FALSE
             ELSE \* child rows / row_count > threshold; 0 / 0 compares false
                  /\ clamped.num > 0
                  /\ bottom_stat.row_count * clamped.den
                         > settings.agg_push_down_threshold * clamped.num
        ELSE settings.agg_push_down_threshold = 0

canAggPushDown(target, settings, bottom_stat) ==
    LET join_id == ToString(target.bottom_join.id)
        estimate == EstimateRows(SortDescending(KeyCndvs(bottom_stat, target.keys)), 1,
                                 1, 1, bottom_stat.row_count, target.keys = <<>>,
                                 settings.multi_agg_keys_correlated_coefficient)
        \* row_count = min(row_count, child rows), as a fraction
        clamped == IF estimate.num <= bottom_stat.row_count * estimate.den
                   THEN estimate
                   ELSE [num |-> bottom_stat.row_count, den |-> 1]
    IN  IF join_id \in settings.eager_agg_join_id_blocklist THEN FALSE
        ELSE IF settings.eager_agg_join_id_whitelist # {}
        THEN (join_id \o "-" \o ToString(target.bottom_join_child_index))
                 \in settings.eager_agg_join_id_whitelist
        ELSE IF bottom_stat.known
        THEN IF all_unknown(bottom_stat, target.keys) THEN FALSE
             ELSE IF settings.only_push_agg_with_functions /\ target.aggs = <<>>
             THEN FALSE
             ELSE \* child rows / row_count > threshold; 0 / 0 compares false
                  /\ clamped.num > 0
                  /\ bottom_stat.row_count * clamped.den
                         > settings.agg_push_down_threshold * clamped.num
        ELSE settings.agg_push_down_threshold = 0

\* ---- doInsertAggregation -----------------------------------------------
\* global_argument_name_to_local: m holds the mapping and the allocator
\* variant that names the local column inter#<name> without the allocator
RECURSIVE C12_Mutant_ArgumentNamesToLocal(_, _, _, _)
C12_Mutant_ArgumentNamesToLocal(m, column_name, argument_names, g1) ==
    IF argument_names = <<>> THEN m
    ELSE LET argument_name == Head(argument_names)
             new_argument_name == "inter#" \o argument_name
             next ==
                 IF argument_name \in DOMAIN m.mapping \/ argument_name \in Range(g1)
                 THEN m
                 ELSE [symbols |-> m.symbols \cup {new_argument_name},
                       introduced |-> Append(m.introduced, new_argument_name),
                       mapping |-> m.mapping
                                   @@ (argument_name :> new_argument_name)
                                   @@ (column_name :> new_argument_name)]
         IN  C12_Mutant_ArgumentNamesToLocal(next, column_name, Tail(argument_names), g1)

RECURSIVE ArgumentNamesToLocal(_, _, _, _)
ArgumentNamesToLocal(m, column_name, argument_names, g1) ==
    IF argument_names = <<>> THEN m
    ELSE LET argument_name == Head(argument_names)
             new_argument_name == newSymbol(m.symbols, "inter#" \o argument_name)
             next ==
                 IF argument_name \in DOMAIN m.mapping \/ argument_name \in Range(g1)
                 THEN m
                 ELSE [symbols |-> m.symbols \cup {new_argument_name},
                       introduced |-> Append(m.introduced, new_argument_name),
                       mapping |-> m.mapping
                                   @@ (argument_name :> new_argument_name)
                                   @@ (column_name :> new_argument_name)]
         IN  ArgumentNamesToLocal(next, column_name, Tail(argument_names), g1)

RECURSIVE GlobalArgumentNameToLocal(_, _, _)
GlobalArgumentNameToLocal(m, s1, g1) ==
    IF s1 = <<>> THEN m
    ELSE GlobalArgumentNameToLocal(
             ArgumentNamesToLocal(m, Head(s1).column_name, Head(s1).argument_names, g1),
             Tail(s1), g1)

\* the function of a NEED_MERGE aggregate re-resolved under another name
\* against the types of its (already mapped) arguments; name_to_type.at
\* throws on a missing name
Resolved(agg_desc, function_name, name_to_type) ==
    IF getClassOfAggFunc(agg_desc.function.name) # "NEED_MERGE" THEN agg_desc
    ELSE [agg_desc EXCEPT !.function =
            IF Range(agg_desc.argument_names) \subseteq DOMAIN name_to_type
            THEN AggregateFunctionFactoryGet(
                     function_name,
                     [i \in DOMAIN agg_desc.argument_names |->
                         name_to_type[agg_desc.argument_names[i]]])
            ELSE NoFunction]

Throws(agg_descs) == \E i \in DOMAIN agg_descs : agg_descs[i].function = NoFunction

\* the new top aggregate's descriptions
NewGlobalAggDesc(mapping, agg_descs, child_node) ==
    [i \in DOMAIN agg_descs |->
        LET mapped == [agg_descs[i] EXCEPT !.argument_names = MapNames(mapping, @)]
        IN  Resolved(mapped, getMergeName(mapped.function.name),
                     OutputNamesToTypes(child_node))]

\* the local aggregate's descriptions
NewS1(mapping, s1, node_below_local_agg) ==
    [i \in DOMAIN s1 |->
        LET renamed == [s1[i] EXCEPT !.column_name = MapName(mapping, @)]
        IN  Resolved(renamed, getStateName(renamed.function.name),
                     OutputNamesToTypes(node_below_local_agg))]

\* the projection rebuilt above a join when the aggregate went through a
\* projection further down
ThroughAssignments(mapping, assignments, child_name_to_type) ==
    LET erased == {k \in DOMAIN mapping :
                      /\ k \in AssignmentNames(assignments)
                      /\ mapping[k] \in DOMAIN child_name_to_type}
        kept == SelectSeq(assignments, LAMBDA a : a.name \notin erased)
        added == SortedUnique({mapping[k] : k \in erased} \ AssignmentNames(kept))
    IN  kept \o [i \in DOMAIN added |->
                    Assignment(added[i], ASTIdentifier(added[i]),
                               child_name_to_type[added[i]])]

\* the projection rebuilt in place with the symbol mapper
MappedAssignments(mapping, assignments) ==
    [i \in DOMAIN assignments |->
        Assignment(MapName(mapping, assignments[i].name),
                   MapAst(mapping, assignments[i].ast), assignments[i].type)]

\* the projection synthesized below the local aggregate
PushedAssignments(assignments, child) ==
    LET child_name_to_type == OutputNamesToTypes(child)
        kept == SelectSeq(assignments, LAMBDA a :
                    ~(isIdentity(a) /\ a.name \notin DOMAIN child_name_to_type))
        added == SortedUnique(DOMAIN child_name_to_type \ AssignmentNames(kept))
    IN  kept \o [i \in DOMAIN added |->
                    Assignment(added[i], ASTIdentifier(added[i]),
                               child_name_to_type[added[i]])]

\* variant whose local aggregate has no group keys
C30_Mutant_createLocalAggregate(id, s0, g0, input) == AggregatingNode(id, <<>>, s0, TRUE, input)

createLocalAggregate(id, s0, g0, input) == AggregatingNode(id, g0, s0, TRUE, input)

\* the bottom join's chosen child with the local aggregate above it
LocalAggregateAbove(c, st, join) ==
    LET child == join.children[c.bottom_join_child_index + 1]
        node_below_local_agg ==
            IF c.push_projection
            THEN ProjectionNode(st.next_node_id,
                                PushedAssignments(st.proj.assignments, child), child)
            ELSE child
        id == IF c.push_projection THEN st.next_node_id + 1 ELSE st.next_node_id
        new_s1 == NewS1(c.mapping, c.s1, node_below_local_agg)
    IN  [node |-> createLocalAggregate(id, new_s1, c.g1, node_below_local_agg),
         st |-> [st EXCEPT !.next_node_id = id + 1,
                           !.error = IF Throws(new_s1) THEN "exception" ELSE @]]

RECURSIVE update_plan_node_until_bottom_join(_, _, _)
UpdateAggregating(c, st, current_node) ==
    LET below == update_plan_node_until_bottom_join(
                     c, [st EXCEPT !.has_visit_global_agg = TRUE],
                     current_node.children[1])
        new_global_agg_desc ==
            NewGlobalAggDesc(c.mapping, c.aggregation.aggregates, below.node)
    IN  IF below.st.error # "none" THEN below
        ELSE IF Throws(new_global_agg_desc)
        THEN [below EXCEPT !.st.error = "exception"]
        ELSE [node |-> [AggregatingNode(c.aggregation.id, c.aggregation.keys,
                                        new_global_agg_desc, c.aggregation.normal,
                                        below.node)
                          EXCEPT !.keys_not_hashed = c.aggregation.keys_not_hashed,
                                 !.final = c.aggregation.final],
              st |-> below.st]

UpdateProjection(c, st, current_node) ==
    LET below == update_plan_node_until_bottom_join(
                     c, [st EXCEPT !.proj = IF c.push_projection THEN current_node ELSE @],
                     current_node.children[1])
        made(assignments) ==
            [node |-> ProjectionNode(below.st.next_node_id, assignments, below.node),
             st |-> [below.st EXCEPT !.next_node_id = @ + 1]]
    IN  IF current_node.children[1].type # "Join"
        THEN [node |-> current_node, st |-> [st EXCEPT !.error = "LOGICAL_ERROR"]]
        ELSE IF below.st.error # "none" THEN below
        ELSE IF c.push_through_final_projection
        THEN made(ThroughAssignments(c.mapping, current_node.assignments,
                                     OutputNamesToTypes(below.node)))
        ELSE IF c.push_projection THEN below
        ELSE made(MappedAssignments(c.mapping, current_node.assignments))

UpdateJoin(c, st, join) ==
    LET visited == [st EXCEPT !.has_visit_join = TRUE]
        local == LocalAggregateAbove(c, visited, join)
        left == update_plan_node_until_bottom_join(c, visited, join.children[1])
        right == update_plan_node_until_bottom_join(c, left.st, join.children[2])
        made(left_child_node, right_child_node, after) ==
            [node |-> WithJoinStep(
                          JoinNode(join.id, MapNames(c.mapping, join.left_keys),
                                   MapNames(c.mapping, join.right_keys),
                                   MapAst(c.mapping, join.filter),
                                   left_child_node, right_child_node),
                          join.step),
             st |-> after]
    IN  IF join.id = c.bottom_join_id
        THEN IF c.bottom_join_child_index = 0
             THEN made(local.node, join.children[2], local.st)
             ELSE made(join.children[1], local.node, local.st)
        ELSE IF left.st.error # "none" THEN left
        ELSE made(left.node, right.node, right.st)

\* c: what the lambda captures; st: the flags, proj and the node id counter
update_plan_node_until_bottom_join(c, st, current_node) ==
    CASE current_node.type = "Aggregating" ->
            IF st.has_visit_global_agg THEN [node |-> current_node, st |-> st]
            ELSE UpdateAggregating(c, st, current_node)
      [] current_node.type = "Projection" ->
            IF st.has_visit_join /\ ~c.push_through_final_projection
            THEN [node |-> current_node, st |-> st]
            ELSE UpdateProjection(c, st, current_node)
      [] current_node.type = "Join" -> UpdateJoin(c, st, current_node)
      [] OTHER -> [node |-> current_node, st |-> st]

\* returns the new plan, the allocator's symbols, the node id counter and
\* the exception thrown, if any
doInsertAggregation(aggregation, s1, g1, push_projection, bottom_join_id, bottom_join_child_index, push_through_final_projection, symbols, next_node_id) ==
    LET m == GlobalArgumentNameToLocal(
                 [symbols |-> symbols, introduced |-> <<>>, mapping |-> <<>>], s1, g1)
        updated == update_plan_node_until_bottom_join(
            [aggregation |-> aggregation, s1 |-> s1, g1 |-> g1,
             push_projection |-> push_projection,
             bottom_join_id |-> bottom_join_id,
             bottom_join_child_index |-> bottom_join_child_index,
             push_through_final_projection |-> push_through_final_projection,
             mapping |-> m.mapping],
            [has_visit_global_agg |-> FALSE, has_visit_join |-> FALSE,
             proj |-> NoNode, next_node_id |-> next_node_id, error |-> "none"],
            aggregation)
    IN  [node |-> updated.node, symbols |-> m.symbols, introduced |-> m.introduced,
         next_node_id |-> updated.st.next_node_id, error |-> updated.st.error]

\* ---- evaluation of a plan on input relations ---------------------------
\* a value is a number, the accumulator of an aggregate function, or the
\* failure of the expression that should have produced it
IntValue(n) == [kind |-> "int", int |-> n, set |-> {}]

StateValue(n, values) == [kind |-> "state", int |-> n, set |-> values]

ErrorValue == [kind |-> "error", int |-> 0, set |-> {}]

Column(row, name) == IF name \in DOMAIN row THEN row[name] ELSE ErrorValue

RECURSIVE SumInts(_)
SumInts(values) ==
    IF values = <<>> THEN 0 ELSE Head(values).int + SumInts(Tail(values))

AllOfKind(values, kind) == \A i \in DOMAIN values : values[i].kind = kind

IntsOf(values) == {values[i].int : i \in DOMAIN values}

\* the aggregate function of this name over the argument values of a group
ApplyAggregate(name, values) ==
    LET p == ParseFunctionName(name)
        ints == IntsOf(values)
    IN  CASE p[2] = "Merge" ->
                IF ~AllOfKind(values, "state") THEN ErrorValue
                ELSE IF p[1] = "count" THEN IntValue(SumInts(values))
                ELSE IntValue(Cardinality(UNION {values[i].set : i \in DOMAIN values}))
          [] ~AllOfKind(values, "int") -> ErrorValue
          [] p[2] = "State" ->
                IF p[1] = "count" THEN StateValue(Len(values), {})
                ELSE StateValue(0, ints)
          [] p[1] = "sum" -> IntValue(SumInts(values))
          [] p[1] = "min" -> IntValue(CHOOSE v \in ints : \A w \in ints : v <= w)
          [] p[1] = "max" -> IntValue(CHOOSE v \in ints : \A w \in ints : v >= w)
          [] p[1] = "count" -> IntValue(Len(values))
          [] p[1] = "uniqExact" -> IntValue(Cardinality(ints))
          [] p[1] = "anyLast" -> values[Len(values)]
          [] OTHER -> IntValue(SumInts(values) \div Len(values))

RECURSIVE EvalAst(_, _)
EvalAst(ast, row) ==
    CASE ast.ast = "Identifier" -> Column(row, ast.name)
      [] ast.ast = "Literal" -> IntValue(ast.value)
      [] OTHER ->
            LET arguments == [i \in DOMAIN ast.children |-> EvalAst(ast.children[i], row)]
            IN  IF ~AllOfKind(arguments, "int") THEN ErrorValue
                ELSE IF toLower(ast.name) = "multiif"
                THEN (IF arguments[1].int # 0 THEN arguments[2] ELSE arguments[3])
                ELSE IntValue(SumInts(arguments))

RECURSIVE Flatten(_)
Flatten(seqs) == IF seqs = <<>> THEN <<>> ELSE Head(seqs) \o Flatten(Tail(seqs))

RECURSIVE SetToSeq(_)
SetToSeq(S) ==
    IF S = {} THEN <<>>
    ELSE LET x == CHOOSE y \in S : TRUE IN <<x>> \o SetToSeq(S \ {x})

JoinRows(join, left_rows, right_rows) ==
    LET matches(l, r) ==
            \A k \in DOMAIN join.left_keys :
                /\ Column(l, join.left_keys[k]).kind = "int"
                /\ Column(l, join.left_keys[k]) = Column(r, join.right_keys[k])
        joined(l) ==
            LET rs == SelectSeq(right_rows, LAMBDA r : matches(l, r))
            IN  [j \in DOMAIN rs |-> l @@ rs[j]]
    IN  Flatten([i \in DOMAIN left_rows |-> joined(left_rows[i])])

AggregateRows(node, rows) ==
    LET key_of(row) == [k \in Range(node.keys) |-> Column(row, k)]
        groups == SetToSeq({key_of(rows[i]) : i \in DOMAIN rows})
        columns == {node.aggregates[i].column_name : i \in DOMAIN node.aggregates}
        of(c) == node.aggregates[CHOOSE i \in DOMAIN node.aggregates :
                                     node.aggregates[i].column_name = c]
        arguments(agg, group_rows) ==
            [i \in DOMAIN group_rows |->
                IF agg.argument_names = <<>> THEN IntValue(1)
                ELSE Column(group_rows[i], agg.argument_names[1])]
        out(group) ==
            LET group_rows == SelectSeq(rows, LAMBDA r : key_of(r) = group)
            IN  [c \in columns |->
                    ApplyAggregate(of(c).function.name, arguments(of(c), group_rows))]
                @@ group
    IN  [g \in DOMAIN groups |-> out(groups[g])]

\* the rows a plan produces on the relations db (table name -> rows)
RECURSIVE Eval(_, _)
Eval(node, db) ==
    CASE node.type = "TableScan" ->
            [i \in DOMAIN db[node.table] |->
                [n \in Range(node.names) |-> IntValue(db[node.table][i][n])]]
      [] node.type = "Join" ->
            JoinRows(node, Eval(node.children[1], db), Eval(node.children[2], db))
      [] node.type = "Projection" ->
            LET rows == Eval(node.children[1], db)
            IN  [i \in DOMAIN rows |->
                    [n \in AssignmentNames(node.assignments) |->
                        EvalAst(AssignmentAt(node.assignments, n).ast, rows[i])]]
      [] node.type = "Aggregating" -> AggregateRows(node, Eval(node.children[1], db))
      [] OTHER -> <<>>

\* ---- the plans, the settings and the relations considered --------------
MaxRows == 3          \* rows of all input relations together

\* the values a column takes in the input relations
ColumnValues(name) == IF name = "y" THEN {1} ELSE {0, 1}

UInt8 == DataType("UInt8")

TrueFilter == ASTLiteral(1)

Scan1 == TableScanNode(4, "t1", <<"a", "x">>)

Scan2 == TableScanNode(5, "t2", <<"b", "y">>)

Scan3 == TableScanNode(7, "t3", <<"d">>)

Scan4 == TableScanNode(10, "t4", <<"e">>)

SecondJoin ==
    WithJoinStep(JoinNode(6, <<"a">>, <<"d">>, TrueFilter, Scan1, Scan3),
                 JoinStep("Inner", "All", "BROADCAST", "PARALLEL_HASH",
                          <<"broadcast_join">>))

FirstJoin(left) ==
    WithJoinStep(JoinNode(3, <<"a">>, <<"b">>, TrueFilter, left, Scan2),
                 JoinStep("Inner", "All", "REPARTITION", "GRACE_HASH", <<>>))

Identity(name) == Assignment(name, ASTIdentifier(name), UInt8)

\* the input of the top aggregate, and the column its aggregates are about
Inputs ==
    {[node |-> Scan1, value |-> "x"],
     [node |-> FirstJoin(Scan1), value |-> "x"],
     [node |-> FirstJoin(SecondJoin), value |-> "x"],
     [node |-> FirstJoin(AggregatingNode(8, <<"a", "x">>, <<>>, TRUE, Scan1)),
      value |-> "x"],
     [node |-> FirstJoin(ProjectionNode(9,
                   <<Identity("a"), Assignment("g", ASTIdentifier("x"), UInt8)>>,
                   SecondJoin)),
      value |-> "g"],
     [node |-> FirstJoin(JoinNode(6, <<"a">>, <<"d">>, TrueFilter,
                                  AggregatingNode(8, <<"a", "x">>, <<>>, TRUE, Scan1),
                                  AggregatingNode(2, <<"d">>, <<>>, TRUE, Scan3))),
      value |-> "x"],
     [node |-> FirstJoin(ProjectionNode(9,
                   <<Identity("a"), Assignment("g", ASTIdentifier("x"), UInt8)>>,
                   JoinNode(6, <<"a">>, <<"d">>, TrueFilter,
                            AggregatingNode(8, <<"a", "x">>, <<>>, TRUE, Scan1),
                            Scan3))),
      value |-> "g"],
     [node |-> JoinNode(3, <<"a">>, <<"b">>, TrueFilter,
                        ProjectionNode(9,
                            <<Identity("a"), Assignment("g", ASTIdentifier("x"), UInt8)>>,
                            SecondJoin),
                        ProjectionNode(2, <<Identity("b"), Identity("y")>>,
                            JoinNode(11, <<"b">>, <<"e">>, TrueFilter, Scan2, Scan4))),
      value |-> "g"],
     [node |-> JoinNode(3, <<"a">>, <<"b">>, TrueFilter,
                        ProjectionNode(9,
                            <<Identity("a"), Assignment("g", ASTIdentifier("x"), UInt8)>>,
                            SecondJoin),
                        ProjectionNode(2, <<Identity("b"), Identity("y")>>, Scan2)),
      value |-> "g"],
     [node |-> ProjectionNode(2,
                   <<Identity("a"), Identity("b"), Identity("y"),
                     Assignment("m", ASTFunction("multiIf",
                         <<ASTIdentifier("a"), ASTIdentifier("x"), ASTIdentifier("y")>>),
                         UInt8)>>,
                   FirstJoin(Scan1)),
      value |-> "m"],
     [node |-> ProjectionNode(2,
                   <<Identity("a"), Identity("b"), Identity("y"),
                     Assignment("e", ASTFunction("plus",
                         <<ASTIdentifier("x"), ASTLiteral(1)>>), UInt8)>>,
                   FirstJoin(Scan1)),
      value |-> "e"],
     [node |-> ProjectionNode(2,
                   <<Identity("a"), Identity("b"), Identity("y"),
                     Assignment("w", ASTFunction("plus",
                         <<ASTIdentifier("x"), ASTIdentifier("y")>>), UInt8)>>,
                   FirstJoin(Scan1)),
      value |-> "w"]}

Function(name) == AggregateFunctionFactoryGet(name, <<UInt8>>)

\* the aggregates a top aggregate is made of, over the value column v
AggregatePool(v) ==
    <<AggregateDescription(Function("sum"), <<v>>, "s1"),
      AggregateDescription(Function("count"), <<v>>, "s2"),
      AggregateDescription(Function("avg"), <<v>>, "s3"),
      AggregateDescription(Function("sum"), <<"a">>, "s4"),
      AggregateDescription(Function("sum"), <<"y">>, "s5"),
      AggregateDescription(Function("max"), <<v>>, "s6"),
      AggregateDescription(AggregateFunctionFactoryGet("count", <<>>), <<>>, "s7"),
      AggregateDescription(Function("uniqExact"), <<v>>, "s8"),
      AggregateDescription(Function("anyLast"), <<v>>, "s9")>>

\* one or two aggregates of the pool, in the pool's order
AggregateLists(v) ==
    LET pool == AggregatePool(v)
    IN  {<<pool[i]>> : i \in DOMAIN pool}
        \cup {<<pool[p[1]], pool[p[2]]>> :
                 p \in {q \in (DOMAIN pool) \X (DOMAIN pool) : q[1] < q[2]}}

KeyLists(v) == {<<>>, <<"a">>, <<"b">>, <<v>>}

Plans ==
    UNION {{WithKeysNotHashed(AggregatingNode(1, keys, aggregates, TRUE, input.node),
                              IF Len(aggregates) = 2 THEN Range(keys) ELSE {}) :
                keys \in {k \in KeyLists(input.value) :
                             Range(k) \subseteq OutputNameSet(input.node)},
                aggregates \in {l \in AggregateLists(input.value) :
                             \A i \in DOMAIN l :
                                 Range(l[i].argument_names)
                                     \subseteq OutputNameSet(input.node)}}
           : input \in Inputs}

DefaultSettings ==
    [agg_push_down_threshold |-> 0,
     multi_agg_keys_correlated_coefficient |-> 100,
     only_push_agg_with_functions |-> FALSE,
     agg_push_down_every_join |-> FALSE,
     eager_agg_join_id_blocklist |-> {},
     eager_agg_join_id_whitelist |-> {}]

\* the default settings and the settings that differ from them in one place
SettingsUniverse ==
    {DefaultSettings,
     [DefaultSettings EXCEPT !.agg_push_down_threshold = 2],
     [DefaultSettings EXCEPT !.only_push_agg_with_functions = TRUE],
     [DefaultSettings EXCEPT !.agg_push_down_every_join = TRUE],
     [DefaultSettings EXCEPT !.eager_agg_join_id_blocklist = {"3"}],
     [DefaultSettings EXCEPT !.eager_agg_join_id_whitelist = {"3-0"}]}

\* what the estimator may answer for a node with these columns
Estimates(names) ==
    {NoStatistics,
     PlanNodeStatistics(4, [n \in names |-> SymbolStatistics(TRUE, 0, 0)]),
     PlanNodeStatistics(8, [n \in names |-> SymbolStatistics(FALSE, 2, 0)]),
     PlanNodeStatistics(4, [n \in names |-> SymbolStatistics(FALSE, 3, 1)])}

\* every symbol of a plan, which the symbol allocator knows as used
RECURSIVE SymbolsOf(_)
SymbolsOf(node) ==
    OutputNameSet(node) \cup UNION {SymbolsOf(node.children[i]) : i \in DOMAIN node.children}

RECURSIVE TablesOf(_)
TablesOf(node) ==
    IF node.type = "TableScan" THEN {node}
    ELSE UNION {TablesOf(node.children[i]) : i \in DOMAIN node.children}

\* the relations with n rows over these columns, rows in one fixed order
RowsOver(names) ==
    SetToSeq({r \in [Range(names) -> {0, 1}] : \A n \in Range(names) : r[n] \in ColumnValues(n)})

Relations(names, n) ==
    LET rows == RowsOver(names)
    IN  {[i \in 1..n |-> rows[f[i]]] :
            f \in {g \in [1..n -> DOMAIN rows] : \A i \in 1..(n - 1) : g[i] <= g[i + 1]}}

\* the databases for these scans with budget rows at most in all
RECURSIVE DatabasesFor(_, _)
DatabasesFor(scans, budget) ==
    IF scans = <<>> THEN {<<>>}
    ELSE UNION {{(Head(scans).table :> r) @@ rest :
                    r \in Relations(Head(scans).names, n),
                    rest \in DatabasesFor(Tail(scans), budget - n)}
                : n \in 0..budget}

Databases(plan) == DatabasesFor(SetToSeq(TablesOf(plan)), MaxRows)

\* ---- EagerAggregation::transformImpl, step by step ---------------------
NoQuery == [plan |-> NoNode, settings |-> DefaultSettings]

IdleContext == [symbols |-> {}, introduced |-> <<>>, next_node_id |-> 0]

NoExecution == [db |-> <<>>, original |-> {}, rewritten |-> {}]

IdleRule ==
    [pc |-> "idle", returned |-> "none", result |-> <<>>,
     projection |-> NoNode, join |-> NoNode, parent_of_first_join |-> NoNode,
     s1 |-> <<>>, s2 |-> <<>>, g1 |-> <<>>, g2 |-> <<>>,
     composed_aggregates |-> <<>>,
     require_output_names_from_local_agg |-> {},
     from_left |-> <<>>, from_right |-> <<>>,
     projection_require_symbols |-> {}, projection_gene_symbols |-> {},
     target_map |-> <<>>, explored |-> <<>>, pending |-> <<>>, rejected |-> {},
     inserted |-> {},
     new_global_agg_node |-> NoNode]

\* nothing of the rewrite is in progress
IdleEager ==
    /\ query = NoQuery
    /\ rule = IdleRule
    /\ context = IdleContext
    /\ execution = NoExecution

FirstNodeId == 20     \* the first id Context::nextNodeId() hands out

InitEager ==
    /\ query \in {[plan |-> p, settings |-> s] : p \in Plans, s \in SettingsUniverse}
    /\ rule = [IdleRule EXCEPT !.pc = "match"]
    /\ context = [symbols |-> SymbolsOf(query.plan), introduced |-> <<>>,
                  next_node_id |-> FirstNodeId]
    /\ execution = NoExecution

\* variant that returns the input node where the code returns {}
C10_Mutant_ReturnEmpty ==
    [rule EXCEPT !.pc = "done", !.returned = "nodes", !.result = <<query.plan>>]

\* return {};
ReturnEmpty == [rule EXCEPT !.pc = "done", !.returned = "empty"]

\* getPattern(): the rule is applied to normal aggregates with keys
Match ==
    /\ rule.pc = "match"
    /\ rule' = IF query.plan.normal /\ query.plan.keys # <<>>
               THEN [rule EXCEPT !.pc = "find_join"]
               ELSE [rule EXCEPT !.pc = "done", !.returned = "not_matched"]
    /\ UNCHANGED <<sendVars, fetchVars, exchange, materialize, gate, stream, query, context, execution>>

\* the optional projection and the first join below the aggregate
FindJoin ==
    /\ rule.pc = "find_join"
    /\ LET aggregation == query.plan
           projection == IF aggregation.children[1].type = "Projection"
                         THEN aggregation.children[1] ELSE NoNode
           node == IF projection.type # "none" THEN projection ELSE aggregation
       IN  rule' = IF node.children[1].type # "Join" THEN ReturnEmpty
                   ELSE [rule EXCEPT !.pc = "decompose",
                                     !.projection = projection,
                                     !.join = node.children[1],
                                     !.parent_of_first_join = node]
    /\ UNCHANGED <<sendVars, fetchVars, exchange, materialize, gate, stream, query, context, execution>>

names_from_left == OutputNameSet(rule.join.children[1])

names_from_right == OutputNameSet(rule.join.children[2])

DecomposeAggJoin ==
    /\ rule.pc = "decompose"
    /\ LET agg_step == query.plan
           d == decomposeAggJoin(agg_step.aggregates, agg_step.keys,
                                 names_from_left, names_from_right)
       IN  rule' = IF ~d.ok THEN ReturnEmpty
                   ELSE [rule EXCEPT
                           !.pc = IF rule.projection.type # "none" THEN "projection"
                                  ELSE "search",
                           !.s1 = d.s1, !.s2 = d.s2, !.g1 = d.g1, !.g2 = d.g2,
                           !.composed_aggregates = d.composed_aggregates,
                           !.require_output_names_from_local_agg =
                               Range(agg_step.keys) \cup
                               UNION {Range(agg_step.aggregates[i].argument_names) :
                                         i \in DOMAIN agg_step.aggregates}]
    /\ UNCHANGED <<sendVars, fetchVars, exchange, materialize, gate, stream, query, context, execution>>

\* decomposeProjection on the locals of transformImpl
DecomposedProjection ==
    decomposeProjection(
        [ok |-> FALSE, deep_parse_success |-> FALSE,
         s1 |-> rule.s1, s2 |-> rule.s2,
         from_left |-> <<>>, from_right |-> <<>>,
         projection_require_symbols |-> {},
         projection_gene_symbols |-> {},
         symbols |-> context.symbols, introduced |-> <<>>],
        rule.projection.assignments, rule.composed_aggregates,
        Range(query.plan.keys), names_from_left, names_from_right)

\* the locals after a successful decomposeProjection
AfterProjection(p, assignments) ==
    [rule EXCEPT
        !.pc = "search",
        !.s1 = p.s1, !.s2 = p.s2,
        !.from_left = p.from_left, !.from_right = p.from_right,
        !.projection_require_symbols = p.projection_require_symbols,
        !.projection_gene_symbols = p.projection_gene_symbols,
        !.require_output_names_from_local_agg =
            IF p.projection_require_symbols = {}
            THEN @ \cup UNION {extract(assignments[i].ast) : i \in DOMAIN assignments}
            ELSE @]

DecomposeProjection ==
    /\ rule.pc = "projection"
    /\ rule' = IF ~DecomposedProjection.ok THEN ReturnEmpty
               ELSE AfterProjection(DecomposedProjection, rule.projection.assignments)
    /\ context' = [context EXCEPT !.symbols = DecomposedProjection.symbols,
                                  !.introduced = @ \o DecomposedProjection.introduced]
    /\ UNCHANGED <<sendVars, fetchVars, exchange, materialize, gate, stream, query, execution>>

\* the top aggregates without those that have a group-by key as argument
AggregatesWithoutKeyArguments(agg_step) ==
    SelectSeq(agg_step.aggregates, LAMBDA g :
        Range(g.argument_names) \cap Range(agg_step.keys) = {})

Search(init_s0, init_g0, global_argument_name_to_local) ==
    BottomJoinSearch(rule.parent_of_first_join, rule.projection, init_s0, init_g0,
                     rule.projection_require_symbols, rule.projection_gene_symbols,
                     rule.require_output_names_from_local_agg,
                     global_argument_name_to_local,
                     query.settings.agg_push_down_every_join)

\* the ids of a target map in the order the loop takes them
RECURSIVE IdsInOrder(_)
IdsInOrder(ids) ==
    IF ids = {} THEN <<>>
    ELSE LET least == CHOOSE i \in ids : \A j \in ids : i <= j
         IN  <<least>> \o IdsInOrder(ids \ {least})

StartLoop(found) ==
    rule' = [rule EXCEPT !.pc = "loop", !.target_map = found.result,
                         !.explored = found.explored,
                         !.pending = IdsInOrder(DOMAIN found.result),
                         !.new_global_agg_node = query.plan]

DetermineBottomJoin ==
    /\ rule.pc = "search"
    /\ IF DOMAIN rule.from_left # {}
       THEN StartLoop(Search(rule.s1, rule.g1, rule.from_left))
       ELSE IF DOMAIN rule.from_right # {}
       THEN StartLoop(Search(rule.s2, rule.g2, rule.from_right))
       ELSE StartLoop(Search(AggregatesWithoutKeyArguments(query.plan),
                             query.plan.keys, <<>>))
    /\ UNCHANGED <<sendVars, fetchVars, exchange, materialize, gate, stream, query, context, execution>>

\* variant without the continue: a rejected target is inserted all the same
C9_Mutant_CanAggPushDown ==
    /\ rule.pc = "loop"
    /\ rule.pending # <<>>
    /\ LET target == rule.target_map[Head(rule.pending)]
           bottom_node == target.bottom_join.children[target.bottom_join_child_index + 1]
       IN  \E bottom_stat \in Estimates(OutputNameSet(bottom_node)) :
               rule' = IF canAggPushDown(target, query.settings, bottom_stat)
                       THEN [rule EXCEPT !.pc = "insert"]
                       ELSE [rule EXCEPT !.pc = "insert",
                                         !.rejected = @ \cup {Head(rule.pending)}]
    /\ UNCHANGED <<sendVars, fetchVars, exchange, materialize, gate, stream, query, context, execution>>

\* the head of the loop over the targets: the cost gate on the next target
CanAggPushDown ==
    /\ rule.pc = "loop"
    /\ rule.pending # <<>>
    /\ LET target == rule.target_map[Head(rule.pending)]
           bottom_node == target.bottom_join.children[target.bottom_join_child_index + 1]
       IN  \E bottom_stat \in Estimates(OutputNameSet(bottom_node)) :
               rule' = IF canAggPushDown(target, query.settings, bottom_stat)
                       THEN [rule EXCEPT !.pc = "insert"]
                       ELSE [rule EXCEPT !.pending = Tail(@),
                                         !.rejected = @ \cup {Head(rule.pending)}]
    /\ UNCHANGED <<sendVars, fetchVars, exchange, materialize, gate, stream, query, context, execution>>

DoInsertAggregation ==
    /\ rule.pc = "insert"
    /\ LET target_id == Head(rule.pending)
           target == rule.target_map[target_id]
           r == doInsertAggregation(rule.new_global_agg_node, target.aggs, target.keys,
                                    rule.projection_require_symbols # {}, target_id,
                                    target.bottom_join_child_index,
                                    target.push_through_final_projection,
                                    context.symbols, context.next_node_id)
       IN  IF r.error # "none"
           THEN /\ rule' = [rule EXCEPT !.pc = "done", !.returned = r.error,
                                        !.inserted = @ \cup {target_id}]
                /\ context' = [symbols |-> r.symbols,
                               introduced |-> context.introduced \o r.introduced,
                               next_node_id |-> context.next_node_id]
           ELSE /\ rule' = [rule EXCEPT !.pc = "loop", !.pending = Tail(@),
                                        !.inserted = @ \cup {target_id},
                                        !.new_global_agg_node = r.node]
                /\ context' = [symbols |-> r.symbols,
                               introduced |-> context.introduced \o r.introduced,
                               next_node_id |-> r.next_node_id]
    /\ UNCHANGED <<sendVars, fetchVars, exchange, materialize, gate, stream, query, execution>>

\* results.push_back(new_global_agg_node); return TransformResult{results};
Return ==
    /\ rule.pc = "loop"
    /\ rule.pending = <<>>
    /\ rule' = [rule EXCEPT !.pc = "done", !.returned = "nodes",
                            !.result = <<rule.new_global_agg_node>>]
    /\ UNCHANGED <<sendVars, fetchVars, exchange, materialize, gate, stream, query, context, execution>>

\* the original and the rewritten plan run on the same relations
Execute ==
    /\ rule.pc = "done"
    /\ rule.returned = "nodes"
    /\ rule.inserted # {}
    /\ \E db \in Databases(query.plan) :
           execution' = [db |-> db,
                         original |-> Range(Eval(query.plan, db)),
                         rewritten |-> Range(Eval(rule.result[1], db))]
    /\ rule' = [rule EXCEPT !.pc = "executed"]
    /\ UNCHANGED <<sendVars, fetchVars, exchange, materialize, gate, stream, query, context>>

NextEager ==
    \/ Match
    \/ FindJoin
    \/ DecomposeAggJoin
    \/ DecomposeProjection
    \/ DetermineBottomJoin
    \/ CanAggPushDown
    \/ DoInsertAggregation
    \/ Return
    \/ Execute

(***************************************************************************)
(* canAggPushDown applied to one candidate and one answer of the estimator *)
(***************************************************************************)
\* the group-by keys of the candidates considered
GateKeys == {<<>>, <<"a">>, <<"a", "b">>, <<"b", "a">>, <<"a", "b", "x">>}

\* candidates on child 0 of join 3, with and without aggregates
GateTargets ==
    {LocalGroupByTarget(FirstJoin(Scan1), 0, aggs, keys, 1, FALSE) :
        aggs \in {<<>>, <<AggregatePool("x")[1]>>}, keys \in GateKeys}

\* the settings: threshold, coefficient (in hundredths) and
\* only_push_agg_with_functions with empty lists, and the lists otherwise
GateSettings ==
    {[DefaultSettings EXCEPT !.agg_push_down_threshold = t,
                             !.multi_agg_keys_correlated_coefficient = c,
                             !.only_push_agg_with_functions = o] :
        t \in {0, 1, 2}, c \in {100, 50}, o \in BOOLEAN}
    \cup {[DefaultSettings EXCEPT !.agg_push_down_threshold = t,
                                  !.eager_agg_join_id_blocklist = l[1],
                                  !.eager_agg_join_id_whitelist = l[2]] :
             t \in {0, 1, 2},
             l \in {<<{"3"}, {}>>, <<{"6"}, {}>>, <<{}, {"3-0"}>>, <<{}, {"3-1"}>>,
                    <<{"3"}, {"3-0"}>>}}

\* statistics of one symbol
SmallSymbolStatistics ==
    {SymbolStatistics(TRUE, 0, 0), SymbolStatistics(FALSE, 0, 0),
     SymbolStatistics(FALSE, 2, 0), SymbolStatistics(FALSE, 3, 1)}

LargeSymbolStatistics ==
    {SymbolStatistics(TRUE, 0, 0), SymbolStatistics(FALSE, 2, 0),
     SymbolStatistics(FALSE, 3, 0), SymbolStatistics(FALSE, 1500000, 0)}

\* the answers of the estimator: nothing, or a row count with statistics of
\* some of the symbols; at most one symbol has a large number of values
GateEstimates ==
    {NoStatistics}
    \cup {PlanNodeStatistics(rows, symbols) :
             rows \in {0, 12},
             symbols \in UNION {[names -> SmallSymbolStatistics] :
                                   names \in SUBSET {"a", "b", "x"}}}
    \cup {PlanNodeStatistics(2000000, symbols) :
             symbols \in {f \in [{"a", "b"} -> LargeSymbolStatistics] :
                             f["a"].ndv < 1500000 \/ f["b"].ndv < 1500000}}

IdleGate ==
    gate = [pc |-> "idle", target |-> NoNode, settings |-> DefaultSettings,
            bottom_stat |-> NoStatistics, approved |-> FALSE]

InitGate ==
    gate \in [pc : {"judge"}, target : GateTargets, settings : GateSettings,
              bottom_stat : GateEstimates, approved : {FALSE}]

\* if (!canAggPushDown(target, rule_context)) continue;
Judge ==
    /\ gate.pc = "judge"
    /\ gate' = [gate EXCEPT !.pc = "done",
                            !.approved = canAggPushDown(gate.target, gate.settings,
                                                        gate.bottom_stat)]
    /\ UNCHANGED <<sendVars, fetchVars, eagerVars, exchange, materialize, stream>>

NextGate == Judge

(***************************************************************************)
(* The file frames of one part, with and without compact map data:         *)
(* Service::sendPartFromDisk and Fetcher::downloadPartToDisk frame by      *)
(* frame, the two replicas running side by side                            *)
(***************************************************************************)
\* the implicit key streams of a map column and the file they share
\* (isMapImplicitKey and getMapFileNameFromImplicitFileName are not in src/)
ImplicitKeys == {"__m__k1.bin", "__m__k2.bin"}

isMapImplicitKey(file_name) == file_name \in ImplicitKeys

getMapFileNameFromImplicitFileName(file_name) == "m.bin"

\* the bytes of the two key streams
KeyBytes == ("__m__k1.bin" :> <<1>>) @@ ("__m__k2.bin" :> <<2, 3>>)

\* std::map<String, ...> iterates the names of a stream part in this order
StreamOrder ==
    <<"__m__k1.bin", "__m__k2.bin", "a.bin", "checksums.txt", "columns.txt">>
    \o [i \in 1..(MaxProjections + 1) |-> ProjDir(ProjectionName(i))]

InStreamOrder(S) == SelectSeq(StreamOrder, LAMBDA n : n \in S)

\* a manifest entry with its offset in a shared file
ChecksumAt(offset, size, hash) ==
    [file_size |-> size, file_hash |-> hash, file_offset |-> offset]

\* Checksums::addFile(name, offset, size, hash)
addFileAt(checksums, name, offset, size, hash) ==
    (name :> ChecksumAt(offset, size, hash)) @@ checksums

RECURSIVE KeysConcat(_)
KeysConcat(order) ==
    IF order = <<>> THEN <<>> ELSE KeyBytes[Head(order)] \o KeysConcat(Tail(order))

\* where the bytes of a key start in the shared file written in this order
RECURSIVE OffsetIn(_, _)
OffsetIn(order, key) ==
    IF Head(order) = key THEN 0
    ELSE Len(KeyBytes[Head(order)]) + OffsetIn(Tail(order), key)

\* how the shared file of a directory is laid out: the order of the keys in
\* it, and the keys whose manifest entry a clear-map-key command has removed
\* (their bytes stay in the file)
Layouts ==
    {[order |-> <<"__m__k1.bin", "__m__k2.bin">>, cleared |-> {}],
     [order |-> <<"__m__k2.bin", "__m__k1.bin">>, cleared |-> {}],
     [order |-> <<"__m__k1.bin", "__m__k2.bin">>, cleared |-> {"__m__k1.bin"}]}

\* one directory of a part: its manifest and its files. short: the shared
\* file has lost its last byte since the manifest was written.
StreamDirectory(name, compact, layout, short, others) ==
    LET keys == Range(layout.order) \ layout.cleared
        shared == KeysConcat(layout.order)
    IN  [name |-> name,
         checksums |->
            [k \in keys |->
                ChecksumAt(IF compact THEN OffsetIn(layout.order, k) ELSE 0,
                           Len(KeyBytes[k]), getHash(KeyBytes[k]))]
            @@ [n \in others |-> Checksum(1, getHash(<<4>>))],
         files |->
            (IF compact
             THEN "m.bin" :> (IF short THEN SubSeq(shared, 1, Len(shared) - 1)
                              ELSE shared)
             ELSE [k \in keys |-> KeyBytes[k]])
            @@ [n \in others |-> <<4>>]
            @@ ("checksums.txt" :> <<9>>) @@ ("columns.txt" :> <<5>>)]

\* a projection holds one key stream
StreamProjection(i, compact) ==
    StreamDirectory(ProjectionName(i), compact,
                    [order |-> <<"__m__k1.bin">>, cleared |-> {}], FALSE, {})

\* the parts sent: the directories of the projections in the order of their
\* names, the part's own directory last
StreamParts ==
    {[enable_compact_map_data |-> compact,
      directories |->
         [i \in 1..n |-> StreamProjection(i, compact)]
         \o <<[StreamDirectory("", compact, layout, short, {"a.bin"})
                  EXCEPT !.checksums =
                     @ @@ [d \in {ProjDir(ProjectionName(i)) : i \in 1..n} |->
                              Checksum(1, 0)]]>>] :
        compact \in BOOLEAN, layout \in Layouts,
        short \in BOOLEAN, n \in 0..(MaxProjections + 1)}

\* lines 384-393, 399 and 427-461 without a prior manifest: the files of a
\* directory that are sent as frames
FramesOf(directory) ==
    (DOMAIN directory.checksums \cup (NoChecksumNames \cap DOMAIN directory.files))
    \ ({ProjDir(ProjectionName(i)) : i \in 1..(MaxProjections + 1)}
       \cup {n \in DOMAIN directory.checksums : endsWithCompressionExtension(n)})

\* the manifest entry of a file to send (checksums.files[file_name] = {} for a
\* file without checksum)
EntryOf(directory, file_name) ==
    IF file_name \in DOMAIN directory.checksums THEN directory.checksums[file_name]
    ELSE DefaultChecksum

\* variant that never sorts
C34_Mutant_NextInVector(directory, compact, queue) == {InStreamOrder(queue)[1]}

\* lines 466-479: the next element of checksums_vector among the files not yet
\* sent. The vector is in map order; with compact map data it is sorted by
\* file_offset with sort, which leaves entries of equal offset in any order.
NextInVector(directory, compact, queue) ==
    IF compact
    THEN {n \in queue :
            \A m \in queue :
               EntryOf(directory, n).file_offset <= EntryOf(directory, m).file_offset}
    ELSE {InStreamOrder(queue)[1]}

\* lines 507-516 and 522-535: the size announced and the bytes read for a file
AnnouncedSize(directory, compact, file_name) ==
    IF compact /\ isMapImplicitKey(file_name)
    THEN EntryOf(directory, file_name).file_size
    ELSE Len(directory.files[file_name])

BytesRead(directory, compact, file_name) ==
    IF compact /\ isMapImplicitKey(file_name)
    THEN LET file == directory.files[getMapFileNameFromImplicitFileName(file_name)]
             offset == EntryOf(directory, file_name).file_offset
             size == EntryOf(directory, file_name).file_size
         IN  SubSeq(file, offset + 1,
                    IF offset + size <= Len(file) THEN offset + size ELSE Len(file))
    ELSE directory.files[file_name]

\* if (hashing_out.count() != size) throw ... BAD_SIZE_OF_FILE_IN_DATA_PART
BadSize(count, size) == count # size

\* variant that accepts every hash
C37_Mutant_HashMismatch(expected_hash, bytes) == FALSE

\* if (expected_hash != hashing_out.getHash()) throw ... CHECKSUM_DOESNT_MATCH
HashMismatch(expected_hash, bytes) == expected_hash # getHash(bytes)

\* variant that records offset 0 for every stream
C38_Mutant_FileOffset(need_append, files, path) == 0

\* UInt64 file_offset = 0; if (need_append && disk->exists(path))
\* file_offset = disk->getFileSize(path)
FileOffset(need_append, files, path) ==
    IF need_append /\ path \in DOMAIN files THEN Len(files[path]) ELSE 0

\* no frame has been handled yet
NoFrame == [name |-> "", size |-> 0, count |-> 0, outcome |-> "none"]

NoReceived ==
    [directory |-> "", name |-> "", file |-> "", size |-> 0, append |-> FALSE,
     before |-> 0, read |-> 0, hash |-> 0, computed |-> 0, outcome |-> "none"]

\* no stream is open
IdleStream ==
    stream = [part |-> [enable_compact_map_data |-> FALSE, directories |-> <<>>],
              wire |-> <<>>, damaged |-> FALSE,
              sender_cancelled |-> FALSE, receiver_cancelled |-> FALSE,
              s |-> [pc |-> "idle", index |-> 0, queue |-> {}, error |-> "none",
                     data_checksums |-> EmptyChecksums, frame |-> NoFrame],
              r |-> [pc |-> "idle", projections |-> 0, directory |-> "",
                     files |-> 0, enable_compact_map_data |-> FALSE, error |-> "none",
                     checksums |-> EmptyChecksums, appended |-> <<>>,
                     manifests |-> <<>>, disk |-> <<>>, frame |-> NoReceived],
              sent |-> <<>>, received |-> <<>>]

\* processQueryPart calls sendPartFromDisk for a part and downloadPartToDisk
\* starts on the response; the receiver knows the number of projections from
\* the header. sent lists the frames completed (directory and file_offset),
\* received the directories of the frames accepted, appended the streams
\* appended to a shared file of the directory being received, in arrival order.
InitStream ==
    \E part \in StreamParts :
        stream = [part |-> part, wire |-> <<>>, damaged |-> FALSE,
                  sender_cancelled |-> FALSE, receiver_cancelled |-> FALSE,
                  s |-> [pc |-> "directory", index |-> 1, queue |-> {},
                         error |-> "none", data_checksums |-> EmptyChecksums,
                         frame |-> NoFrame],
                  r |-> [pc |-> "directory", projections |-> Len(part.directories) - 1,
                         directory |-> "", files |-> 0,
                         enable_compact_map_data |-> FALSE, error |-> "none",
                         checksums |-> EmptyChecksums, appended |-> <<>>,
                         manifests |-> <<>>, disk |-> [p \in {} |-> <<>>],
                         frame |-> NoReceived],
                  sent |-> <<>>, received |-> <<>>]

SetStream(st) ==
    /\ stream' = st
    /\ UNCHANGED <<sendVars, fetchVars, eagerVars, exchange, materialize, gate>>

\* ---- the sender ----
\* (the connection takes one write of the sender at a time: the sender writes
\* when the receiver has read what was written before)
\* the directory sendPartFromDisk is sending
SentDirectory == stream.part.directories[stream.s.index]

\* a call of sendPartFromDisk up to the file loop: the projection's name
\* (line 404, written by the caller), the file count and the compact-map flag
SendCounts ==
    LET s == stream.s
        d == SentDirectory
    IN  /\ s.pc = "directory"
        /\ stream.wire = <<>>
        /\ SetStream(
              [stream EXCEPT
                 !.wire = @ \o (IF d.name # "" THEN <<NameToken(d.name)>> ELSE <<>>)
                            \o <<CountsToken(Cardinality(FramesOf(d)),
                                             stream.part.enable_compact_map_data)>>,
                 !.s = [s EXCEPT !.pc = "files", !.queue = FramesOf(d),
                                 !.data_checksums =
                                    [n \in DOMAIN d.checksums \ FramesOf(d) |->
                                        Checksum(d.checksums[n].file_size,
                                                 d.checksums[n].file_hash)]]])

\* one iteration of the file loop, lines 501-546. A cancelled copy stops
\* after any number of bytes.
SendFile ==
    LET s == stream.s
        d == SentDirectory
        compact == stream.part.enable_compact_map_data
    IN  /\ s.pc = "files"
        /\ s.queue # {}
        /\ stream.wire = <<>>
        /\ \E file_name \in NextInVector(d, compact, s.queue) :
              LET size == AnnouncedSize(d, compact, file_name)
                  bytes == BytesRead(d, compact, file_name)
              IN  IF stream.sender_cancelled
                  THEN \E count \in 0..Len(bytes) :
                          SetStream(
                             [stream EXCEPT
                                !.wire = Append(@, CutFileToken(file_name, size)),
                                !.s = [s EXCEPT !.pc = "done", !.error = "ABORTED",
                                                !.frame = [name |-> file_name,
                                                           size |-> size, count |-> count,
                                                           outcome |-> "ABORTED"]]])
                  ELSE IF BadSize(Len(bytes), size)
                  THEN SetStream(
                          [stream EXCEPT
                             !.wire = Append(@, CutFileToken(file_name, size)),
                             !.s = [s EXCEPT !.pc = "done",
                                             !.error = "BAD_SIZE_OF_FILE_IN_DATA_PART",
                                             !.frame = [name |-> file_name, size |-> size,
                                                        count |-> Len(bytes),
                                                        outcome |-> "BAD_SIZE_OF_FILE_IN_DATA_PART"]]])
                  ELSE SetStream(
                          [stream EXCEPT
                             !.wire = Append(@, FileToken(file_name, size, bytes,
                                                          getHash(bytes))),
                             !.sent = Append(@, [directory |-> s.index,
                                                 file_offset |->
                                                    EntryOf(d, file_name).file_offset]),
                             !.s = [s EXCEPT
                                      !.queue = @ \ {file_name},
                                      !.data_checksums =
                                         IF file_name \in NoChecksumNames THEN @
                                         ELSE addFile(@, file_name, Len(bytes),
                                                      getHash(bytes)),
                                      !.frame = [name |-> file_name, size |-> size,
                                                 count |-> Len(bytes),
                                                 outcome |-> "completed"]]])

\* the end of a call: checkEqual(data_checksums) (line 548); the caller goes on
\* to the next projection or to the part's own files
SendReturn ==
    LET s == stream.s
        d == SentDirectory
        code == checkEqual(d.checksums, s.data_checksums, TRUE)
    IN  /\ s.pc = "files"
        /\ s.queue = {}
        /\ SetStream(
              [stream EXCEPT
                 !.s = IF code # "none" THEN [s EXCEPT !.pc = "done", !.error = code]
                       ELSE IF s.index < Len(stream.part.directories)
                       THEN [s EXCEPT !.pc = "directory", !.index = @ + 1]
                       ELSE [s EXCEPT !.pc = "done"]])

\* another thread of the sender cancels the sends
CancelSends ==
    /\ stream.s.pc \in {"directory", "files"}
    /\ ~stream.sender_cancelled
    /\ SetStream([stream EXCEPT !.sender_cancelled = TRUE])

\* ---- the connection ----
\* one file frame in flight arrives with a hash that is not the hash of its
\* bytes (a failing connection or peer)
DamageFrame ==
    /\ ~stream.damaged
    /\ stream.wire # <<>>
    /\ stream.wire[Len(stream.wire)].k = "file"
    /\ SetStream([stream EXCEPT !.damaged = TRUE,
                                !.wire[Len(stream.wire)].hash = (@ + 1) % 65521])

\* ---- the receiver ----
\* the response is over: the sender has returned or thrown
EndOfResponse == stream.s.pc = "done" /\ stream.wire = <<>>

ReceiverFails(r, code) == [r EXCEPT !.pc = "done", !.error = code]

\* downloadPartToDisk, lines 1118-1138: the next projection (its name, its
\* directory) or the part's own directory, then the counts read by
\* downloadBaseOrProjectionPartToDisk (lines 973-977)
ReceiveCounts ==
    LET r == stream.r
        expected == IF r.projections > 0 THEN <<"name", "counts">> ELSE <<"counts">>
        w == stream.wire
    IN  /\ r.pc = "directory"
        /\ \/ /\ Len(w) >= Len(expected)
              /\ SetStream(
                    IF \A i \in DOMAIN expected : w[i].k = expected[i]
                    THEN [stream EXCEPT
                            !.wire = SubSeq(w, Len(expected) + 1, Len(w)),
                            !.r = [r EXCEPT
                                     !.pc = "files",
                                     !.directory = IF r.projections > 0
                                                   THEN ProjDir(w[1].name) ELSE "",
                                     !.files = w[Len(expected)].files,
                                     !.enable_compact_map_data = w[Len(expected)].compact,
                                     !.checksums = EmptyChecksums,
                                     !.appended = <<>>]]
                    ELSE [stream EXCEPT !.r = ReceiverFails(r, "ATTEMPT_TO_READ_AFTER_EOF")])
           \/ /\ Len(w) < Len(expected)
              /\ stream.s.pc = "done"
              /\ SetStream([stream EXCEPT
                              !.wire = <<>>,
                              !.r = ReceiverFails(r, "ATTEMPT_TO_READ_AFTER_EOF")])

\* disk->removeRecursive(part_download_path)
RemoveDirectory(files, directory) ==
    [p \in {q \in DOMAIN files : directory # "" /\ q[1] # directory} |-> files[p]]

\* one iteration of the file loop of downloadBaseOrProjectionPartToDisk, lines
\* 1012-1072 (the names of this model all lie inside the directory). A
\* cancelled copy stops after any number of bytes. frame records the frame
\* handled: the bytes read, the hash received and the hash computed.
ReceiveFile ==
    LET r == stream.r
        w == stream.wire
    IN  /\ r.pc = "files"
        /\ r.files > 0
        /\ \/ /\ w = <<>>
              /\ stream.s.pc = "done"
              /\ SetStream([stream EXCEPT !.r = ReceiverFails(r, "ATTEMPT_TO_READ_AFTER_EOF")])
           \/ /\ w # <<>>
              /\ LET t == Head(w)
                     stream_name == t.name
                     need_append == r.enable_compact_map_data /\ isMapImplicitKey(stream_name)
                     file_name == IF need_append
                                  THEN getMapFileNameFromImplicitFileName(stream_name)
                                  ELSE stream_name
                     path == <<r.directory, file_name>>
                     file_offset == FileOffset(need_append, r.disk, path)
                     before == IF path \in DOMAIN r.disk THEN r.disk[path] ELSE <<>>
                     frame == [directory |-> r.directory,
                               name |-> stream_name, file |-> file_name, size |-> t.size,
                               append |-> need_append, before |-> Len(before),
                               read |-> IF t.k = "file" THEN t.size ELSE 0,
                               hash |-> IF t.k = "file" THEN t.hash ELSE 0,
                               computed |-> IF t.k = "file" THEN getHash(t.data) ELSE 0,
                               outcome |-> "none"]
                     written(bytes) ==
                         (path :> (IF need_append THEN before \o bytes ELSE bytes))
                         @@ r.disk
                 IN  IF t.k \notin {"file", "cutfile"}
                     THEN SetStream([stream EXCEPT
                                       !.r = ReceiverFails(r, "ATTEMPT_TO_READ_AFTER_EOF")])
                     ELSE IF stream.receiver_cancelled
                     THEN \E read \in 0..frame.read :
                             SetStream(
                                [stream EXCEPT
                                   !.wire = Tail(w),
                                   !.r = [ReceiverFails(r, "ABORTED") EXCEPT
                                            !.disk = RemoveDirectory(r.disk, r.directory),
                                            !.frame = [frame EXCEPT !.outcome = "ABORTED",
                                                                    !.read = read]]])
                     ELSE IF t.k = "cutfile"
                     THEN SetStream(
                             [stream EXCEPT
                                !.wire = Tail(w),
                                !.r = [ReceiverFails(r, "ATTEMPT_TO_READ_AFTER_EOF") EXCEPT
                                         !.disk = written(<<>>),
                                         !.frame =
                                            [frame EXCEPT
                                               !.outcome = "ATTEMPT_TO_READ_AFTER_EOF"]]])
                     ELSE IF HashMismatch(t.hash, t.data)
                     THEN SetStream(
                             [stream EXCEPT
                                !.wire = Tail(w),
                                !.r = [ReceiverFails(r, "CHECKSUM_DOESNT_MATCH") EXCEPT
                                         !.disk = written(t.data),
                                         !.frame =
                                            [frame EXCEPT
                                               !.outcome = "CHECKSUM_DOESNT_MATCH"]]])
                     ELSE SetStream(
                             [stream EXCEPT
                                !.wire = Tail(w),
                                !.received = Append(@, r.directory),
                                !.r = [r EXCEPT
                                         !.files = @ - 1,
                                         !.appended = IF need_append
                                                      THEN Append(@, stream_name) ELSE @,
                                         !.disk = written(t.data),
                                         !.checksums =
                                            IF stream_name \in NoChecksumNames THEN @
                                            ELSE addFileAt(@, stream_name, file_offset,
                                                           t.size, t.hash),
                                         !.frame = [frame EXCEPT !.outcome = "accepted"]]])

\* the file loop is over: downloadPartToDisk takes the next projection, or
\* after the part's own directory goes to assertEOF (the projection's entry in
\* the part's manifest is modelled with the fetch, AfterProjection)
ReceiveReturn ==
    LET r == stream.r
    IN  /\ r.pc = "files"
        /\ r.files = 0
        /\ SetStream(
              [stream EXCEPT
                 !.r = [r EXCEPT
                          !.pc = IF r.projections > 0 THEN "directory" ELSE "eof",
                          !.projections = IF @ > 0 THEN @ - 1 ELSE 0,
                          !.manifests = Append(@, [directory |-> r.directory,
                                                   checksums |-> r.checksums,
                                                   appended |-> r.appended])]])

\* assertEOF(in), and the part is created
ReceiveEOF ==
    LET r == stream.r
    IN  /\ r.pc = "eof"
        /\ stream.wire # <<>> \/ stream.s.pc = "done"
        /\ SetStream(
              [stream EXCEPT
                 !.r = IF stream.wire # <<>> THEN ReceiverFails(r, "CANNOT_READ_ALL_DATA")
                       ELSE [r EXCEPT !.pc = "done"]])

\* another thread of the receiver cancels the fetches
CancelFetches ==
    /\ stream.r.pc \in {"directory", "files", "eof"}
    /\ ~stream.receiver_cancelled
    /\ SetStream([stream EXCEPT !.receiver_cancelled = TRUE])

NextStream ==
    \/ SendCounts
    \/ SendFile
    \/ SendReturn
    \/ CancelSends
    \/ DamageFrame
    \/ ReceiveCounts
    \/ ReceiveFile
    \/ ReceiveReturn
    \/ ReceiveEOF
    \/ CancelFetches

(***************************************************************************)
(* Specifications                                                          *)
(***************************************************************************)
NoFetch ==
    /\ scenario = [peer |-> "none"]
    /\ wire = <<>>
    /\ fetch = IdleFetch
    /\ disk = EmptyDisk
    /\ blocker = FALSE

SendInit == InitSend /\ NoFetch /\ IdleEager /\ IdleExchange /\ IdleMaterialize /\ IdleGate /\ IdleStream

SpecSend == SendInit /\ [][NextSend]_vars

FetchInit == InitFetch /\ IdleSend /\ IdleEager /\ IdleExchange /\ IdleMaterialize /\ IdleGate /\ IdleStream

SpecFetch == FetchInit /\ [][NextFetch]_vars

EagerInit == InitEager /\ IdleSend /\ NoFetch /\ IdleExchange /\ IdleMaterialize /\ IdleGate /\ IdleStream

SpecEager == EagerInit /\ [][NextEager]_vars

ExchangeInit ==
    InitExchange /\ IdleSend /\ NoFetch /\ IdleEager /\ IdleMaterialize /\ IdleGate /\ IdleStream

SpecExchange == ExchangeInit /\ [][NextExchange]_vars

MaterializeInit ==
    InitMaterialize /\ IdleSend /\ NoFetch /\ IdleEager /\ IdleExchange /\ IdleGate /\ IdleStream

GateInit ==
    InitGate /\ IdleSend /\ NoFetch /\ IdleEager /\ IdleExchange /\ IdleMaterialize /\ IdleStream

SpecGate == GateInit /\ [][NextGate]_vars

SpecMaterialize == MaterializeInit /\ [][NextMaterialize]_vars

StreamInit ==
    InitStream /\ IdleSend /\ NoFetch /\ IdleEager /\ IdleExchange /\ IdleMaterialize
    /\ IdleGate

SpecStream == StreamInit /\ [][NextStream]_vars

\* fetchPart is sequential code on one thread and the HTTP buffer answers or
\* times out: a step that can be taken is taken
SpecExchangeLive == SpecExchange /\ WF_vars(NextExchange)

(***************************************************************************)
(* Properties of the fetch                                                 *)
(***************************************************************************)
DownloadDir == FullPath(PartDownloadPath)

Completed == fetch.pc = "done" /\ fetch.error = "none"

\* what the receiver has created: the paths that were not on its disk before
CreatedPaths ==
    (disk.dirs \cup DOMAIN disk.files)
    \ (InitialDisk(scenario).dirs \cup DOMAIN InitialDisk(scenario).files)

\* C2: every file or directory the receiver has created lies inside the part
\* download directory tmp-fetch_<part>/, whatever names the server sent (file
\* names, skip-copy entry names, projection names).
C2_CreatedPathsInsideDownloadDir ==
    \A q \in CreatedPaths : startsWith(q, DownloadDir)

\* the manifest of the files of a directory, projections apart
ManifestOfFiles(files) ==
    [n \in {r[1] : r \in {q \in DOMAIN files : Len(q) = 1}} |->
        Checksum(Len(files[<<n>>]), getHash(files[<<n>>]))]

\* the manifest a directory amounts to: one entry per file and one entry per
\* sub-directory (the sub-directory's files with checksums, summed up)
ManifestOfDirectory(d, p) ==
    LET files == FilesUnder(d, p)
        subdirs == {q[1] : q \in {r \in DOMAIN files : Len(r) = 2}}
    IN ManifestOfFiles(files)
       @@ [sub \in subdirs |->
             LET m == ManifestOfFiles(FilesUnder(d, Append(p, sub)))
                 checked == [n \in DOMAIN m \ NoChecksumNames |-> m[n]]
             IN Checksum(getTotalSizeOnDisk(checked), getTotalChecksumUInt128(checked))]

HonestFullFetchCompleted ==
    /\ Completed
    /\ scenario.peer = "honest"
    /\ ~fetch.incremental

TransmittedManifest(part) ==
    [n \in DOMAIN part.checksums \ CompressionNames |-> part.checksums[n]]

FullFetchFiles(part) ==
    [r \in {<<n>> : n \in DOMAIN part.files \ CompressionNames}
           \cup {<<ProjDir(q), n>> : q \in DOMAIN part.projections,
                                     n \in DOMAIN MakeSubPart("proj", <<>>).files \cup {"a.bin"}}
       |-> IF Len(r) = 1 THEN part.files[r[1]]
           ELSE part.projections[CHOOSE q \in DOMAIN part.projections :
                                    ProjDir(q) = r[1]].files[r[2]]]

\* the names whose checksum entry is equal in the old version P' and in P
EqualEntries(part, old) ==
    {n \in DOMAIN part.checksums \cap DOMAIN old.checksums :
        part.checksums[n] = old.checksums[n]}

\* the file n of the download directory is one more link on P's file n
HardLinkedFromOld(n) ==
    /\ Append(DownloadDir, n) \in DOMAIN disk.files
    /\ disk.files[Append(DownloadDir, n)].ino = disk.files[Append(OldPartPath, n)].ino
    /\ LinkCount(disk, disk.files[Append(OldPartPath, n)].ino) = 2

HonestIncrementalFetchCompleted ==
    /\ Completed
    /\ scenario.peer = "honest"
    /\ fetch.incremental

\* C5: after an incremental fetch of P by a receiver holding P', the directory
\* has the same files with the same contents as after a full fetch of P, and
\* every file whose checksum entry is equal in P' and P is hard-linked from P'.
C5_IncrementalEqualsFullFetch ==
    HonestIncrementalFetchCompleted
       => /\ FilesUnder(disk, DownloadDir) = FullFetchFiles(scenario.part)
          /\ \A n \in EqualEntries(scenario.part, scenario.old) : HardLinkedFromOld(n)

\* what the sender writes for the incremental request of the scenario
IncrementalSend ==
    sendPartFromDisk(scenario.part, <<getSerializedString(scenario.old.checksums)>>,
                     TRUE, DOMAIN scenario.part.projections, scenario.read_at_eof)

\* the tokens written for the part's own directory: from the last file count on
\* (the projections are written first, each after its name)
BaseTokens(out) ==
    LET counts == {i \in DOMAIN out : out[i].k = "counts"}
    IN  IF counts = {} THEN <<>>
        ELSE SubSeq(out, CHOOSE i \in counts : \A j \in counts : j <= i, Len(out))

\* the entries of the sender's manifest for files of the part's own directory
OwnEntries(part) ==
    DOMAIN part.checksums \ {ProjDir(q) : q \in DOMAIN part.projections}

\* the files whose checksum entry differs between the sender's manifest and
\* the receiver's prior manifest
ChangedEntries(part, old) ==
    {n \in OwnEntries(part) : ~isEqual(part.checksums, old.checksums, n)}

\* an incremental request of an honest exchange was served without an exception
IncrementalSendReturned ==
    /\ fetch.pc # "idle"
    /\ scenario.peer = "honest"
    /\ scenario.incrementally
    /\ IncrementalSend.err = "none"

\* C22: in an incremental fetch the files sent as full (name, size, bytes,
\* hash) frames are exactly the files whose checksum entry differs between the
\* sender's manifest and the receiver's prior manifest; each unchanged file
\* appears exactly once as a header-only skip_copy entry and is not
\* transmitted; when exactly one file changed, the wire carries exactly one
\* full frame.
C22_FullFramesAreExactlyChangedFiles ==
    IncrementalSendReturned
       => LET base == BaseTokens(IncrementalSend.out)
              frames == {i \in DOMAIN base : base[i].k = "file"}
              changed == ChangedEntries(scenario.part, scenario.old)
          IN  /\ {base[i].name : i \in frames} = changed
              /\ \A n \in OwnEntries(scenario.part) \ changed :
                    /\ Cardinality({i \in DOMAIN base :
                                      base[i].k = "skip" /\ base[i].name = n}) = 1
                    /\ n \notin {base[i].name : i \in frames}
              /\ Cardinality(changed) = 1 => Cardinality(frames) = 1

\* C6: a fetch that ends with ABORTED leaves no tmp-fetch_<part> directory,
\* nor any part of it, on the receiver's disk.
C6_CancelledFetchLeavesNoDirectory ==
    (fetch.pc = "done" /\ fetch.error = "ABORTED" /\ ~fetch.retried)
       => ~exists(disk, DownloadDir)

\* checksum mismatch, truncated stream, name escaping the download directory
FetchErrors ==
    {"CHECKSUM_DOESNT_MATCH", "CANNOT_READ_ALL_DATA", "ATTEMPT_TO_READ_AFTER_EOF",
     "INSECURE_PATH"}

HonestResponse200 ==
    /\ exchange.server.peer = "honest"
    /\ exchange.http.pc = "response"
    /\ exchange.http.response.status = 200

\* the header fields fetchPart has to read before the download starts
ExpectedRead ==
    FieldNames(exchange.http.response.header)
    \o (IF /\ exchange.client.client_protocol_version
                  >= REPLICATION_PROTOCOL_VERSION_WITH_PARTS_PROJECTION
            /\ ~exchange.http.response.s3_metadata
        THEN <<"projections">> ELSE <<>>)

\* C11: for every client_protocol_version v the cookie server_protocol_version
\* is min(v, 7), and the header fields processQueryPart writes (total size
\* from 1, ttl_infos from 2, part_type from 3, uuid from 5, the projection
\* count from 7 outside object-store mode) are exactly the fields fetchPart
\* reads when it gates on the cookie: it never reads a field of another
\* kind, and when it starts the download it has read the whole header and
\* the part is next in the stream.
C11_HeaderWrittenIsHeaderRead ==
    HonestResponse200 =>
        /\ exchange.http.response.cookies["server_protocol_version"]
               = toString(Min2(exchange.client.client_protocol_version, 7))
        /\ exchange.fetcher.error # "GARBAGE"
        /\ exchange.fetcher.pc = "s3_download"
               => /\ exchange.fetcher.read = ExpectedRead
                  /\ FieldNames(exchange.fetcher.in) = <<"s3_metadata">>
        /\ exchange.fetcher.download \in {"downloadPartToDisk", "downloadPartToMemory"}
               => /\ exchange.fetcher.read = ExpectedRead
                  /\ Len(exchange.fetcher.in) = 1
                  /\ exchange.fetcher.in[1].field \in {"part_from_disk", "part_from_memory"}

\* a client newer than the server has read the five header fields of
\* protocol 7 and downloads the part
C11_Witness ==
    /\ HonestResponse200
    /\ exchange.client.client_protocol_version
           > REPLICATION_PROTOCOL_VERSION_WITH_PARTS_PROJECTION
    /\ exchange.fetcher.download = "downloadPartToDisk"
    /\ exchange.fetcher.read
           = <<"total_size", "ttl_infos", "part_type", "uuid", "projections">>

\* ---- C17 ---------------------------------------------------------------
\* downloadPartToS3 has failed in this fetch
S3DownloadFailed == exchange.fetcher.s3_outcome \notin {"none", "ok"}

\* C17 as stated: when the object-store download fails, fetchPart retries
\* the same fetch in normal mode.
C17_AnyS3FailureIsRetried ==
    S3DownloadFailed => exchange.fetcher.depth = 1

\* the recursive call runs with S3 copy disabled: it asks for no metadata
\* and never enters object-store mode
RetryIsInNormalMode ==
    exchange.fetcher.depth = 1 =>
        /\ ~exchange.fetcher.try_use_s3_copy
        /\ exchange.fetcher.disk_s3 = "none"
        /\ "send_s3_metadata" \notin DOMAIN exchange.http.params
        /\ exchange.fetcher.pc \notin {"s3_header", "s3_download"}
        /\ exchange.fetcher.download # "downloadPartToS3"

RetriedOnlyAfterS3Error ==
    /\ exchange.fetcher.depth \in {0, 1}
    /\ exchange.fetcher.depth = 1 <=> exchange.fetcher.s3_outcome = "S3_ERROR"
    /\ (S3DownloadFailed /\ exchange.fetcher.s3_outcome # "S3_ERROR") =>
           /\ exchange.fetcher.pc = "done"
           /\ exchange.fetcher.error = exchange.fetcher.s3_outcome

\* C17, amended: when the object-store download fails with S3_ERROR,
\* fetchPart retries the same fetch exactly once, with S3 copy disabled, and
\* the retry never enters object-store mode; any other failure of the
\* download leaves fetchPart as the exception it is, without a retry;
\* fetchPart recurses at most one level and terminates.
C17_RetriedOnceAfterS3ErrorOnly ==
    /\ [](RetriedOnlyAfterS3Error /\ RetryIsInNormalMode)
    /\ <>(exchange.fetcher.pc = "done")

\* the retry after an S3_ERROR has fetched the part in normal mode
C17_Witness ==
    /\ exchange.fetcher.depth = 1
    /\ exchange.fetcher.s3_outcome = "S3_ERROR"
    /\ exchange.fetcher.pc = "done"
    /\ exchange.fetcher.download = "downloadPartToDisk"

\* ---- C18 ---------------------------------------------------------------
\* the replica that runs this code has answered the request with a part
HonestAnswer ==
    /\ exchange.server.peer = "honest"
    /\ exchange.http.pc = "response"
    /\ exchange.http.response.status = 200

\* the four conditions under which the server is to use the object store
BothPeersAgree ==
    /\ exchange.server.allow_remote_fs_zero_copy_replication
    /\ exchange.client.client_protocol_version >= 6
    /\ "send_s3_metadata" \in DOMAIN exchange.http.params
    /\ exchange.http.params["send_s3_metadata"] = "1"
    /\ exchange.server.source_disk = "S3"

S3CookieSet ==
    /\ "send_s3_metadata" \in DOMAIN exchange.http.response.cookies
    /\ exchange.http.response.cookies["send_s3_metadata"] = "1"

\* fetchPart is on, or has gone, the object-store path
OnS3Path ==
    \/ exchange.fetcher.pc \in {"s3_header", "s3_download"}
    \/ exchange.fetcher.download = "downloadPartToS3"

\* C18: the server sets the cookie send_s3_metadata=1 and sends metadata
\* only if zero-copy replication is allowed, the client version is >= 6, the
\* request carries send_s3_metadata=1 and the source disk is S3; otherwise
\* it sets no such cookie and streams the part, and the client completes the
\* fetch in normal mode. The client takes the object-store path only if it
\* requested it and the server version is >= 6, and fails otherwise.
C18_S3ModeOnlyWhenBothAgree ==
    /\ HonestAnswer =>
           /\ S3CookieSet <=> BothPeersAgree
           /\ exchange.http.response.s3_metadata <=> BothPeersAgree
           /\ ~BothPeersAgree =>
                  /\ "send_s3_metadata" \notin DOMAIN exchange.http.response.cookies
                  /\ ~OnS3Path
                  /\ exchange.fetcher.pc = "done" =>
                         /\ exchange.fetcher.error = "none"
                         /\ exchange.fetcher.download
                                \in {"downloadPartToDisk", "downloadPartToMemory"}
    /\ OnS3Path =>
           /\ exchange.fetcher.try_use_s3_copy
           /\ "send_s3_metadata" \in DOMAIN exchange.http.params
           /\ exchange.fetcher.server_protocol_version >= 6
    /\ (/\ exchange.fetcher.send_s3 = 1
        /\ \/ ~exchange.fetcher.try_use_s3_copy
           \/ exchange.fetcher.server_protocol_version < 6) =>
           /\ exchange.fetcher.pc = "done"
           /\ exchange.fetcher.error = "LOGICAL_ERROR"
           /\ exchange.fetcher.download = "none"

\* a server allowed to use the object store streams the part because it is
\* on a local disk, though the client asked for metadata, and the client has
\* fetched it in normal mode
C18_Witness ==
    /\ HonestAnswer
    /\ exchange.server.allow_remote_fs_zero_copy_replication
    /\ exchange.client.client_protocol_version >= 6
    /\ "send_s3_metadata" \in DOMAIN exchange.http.params
    /\ exchange.server.source_disk = "Local"
    /\ exchange.fetcher.pc = "done"
    /\ exchange.fetcher.download = "downloadPartToDisk"

(***************************************************************************)
(* Properties of the part directory                                        *)
(***************************************************************************)
\* tmp_prefix or part_name is empty or contains '.' or '/'
UnsafeNames ==
    \/ EffectivePrefix(materialize.tmp_prefix_) = <<>>
    \/ materialize.part_name = <<>>
    \/ Chars(EffectivePrefix(materialize.tmp_prefix_)) \cap {"/", "."} # {}
    \/ Chars(materialize.part_name) \cap {"/", "."} # {}

\* C21: a fetch that materializes a part directory is rejected with an
\* error, before any existing directory is removed and before any directory
\* is created, whenever tmp_prefix or part_name contains '.' or '/' or is
\* empty, in the disk download and in the object-store download alike.
C21_UnsafeNamesRejectedBeforeDiskIsTouched ==
    (materialize.function # "none" /\ UnsafeNames) =>
        /\ ~materialize.removed
        /\ materialize.created = <<>>
        /\ materialize.pc = "done" => materialize.error # "none"

(***************************************************************************)
(* Properties of the eager aggregation rewrite                             *)
(***************************************************************************)
\* C1: whenever transformImpl has produced a rewritten plan (a local
\* aggregate inserted below a join), the rewritten plan and the original
\* plan give the same rows on the same input relations.
C1_RewrittenPlanEquivalent ==
    rule.pc = "executed" => execution.rewritten = execution.original

\* the output columns of a node: names and types, in order
OutputColumns(node) ==
    LET names == OutputNames(node)
    IN  [i \in DOMAIN names |-> <<names[i], TypeOf(OutputNamesToTypes(node), names[i])>>]

\* transformImpl has reached its loop over the targets
LoopEntered == rule.new_global_agg_node.type = "Aggregating"

\* C8: the top aggregate of every plan doInsertAggregation returns has the
\* output columns of the original top aggregate: the same names in the same
\* order with the same types.
C8_TopOutputColumnsPreserved ==
    LoopEntered =>
        OutputColumns(rule.new_global_agg_node) = OutputColumns(query.plan)

\* a rewrite in which a function became its Merge sibling over a renamed
\* argument
C8_Witness ==
    /\ rule.inserted # {}
    /\ rule.returned = "nodes"
    /\ \E i \in DOMAIN rule.result[1].aggregates :
           /\ rule.result[1].aggregates[i].function.name = "countMerge"
           /\ rule.result[1].aggregates[i].argument_names
                  # query.plan.aggregates[i].argument_names

\* the cost gate has rejected every candidate determineBottomJoin found
EveryCandidateRejected ==
    /\ LoopEntered
    /\ rule.pc = "done"
    /\ rule.rejected = DOMAIN rule.target_map

\* C9: when canAggPushDown rejects every candidate, transformImpl returns
\* the input aggregation itself, doInsertAggregation has not been called
\* and no node id has been handed out.
C9_RejectedReturnsInputNode ==
    EveryCandidateRejected =>
        /\ rule.returned = "nodes"
        /\ rule.result = <<query.plan>>
        /\ rule.inserted = {}
        /\ context.next_node_id = FirstNodeId

C9_Witness ==
    /\ EveryCandidateRejected
    /\ rule.rejected # {}

\* the refusal cases of transformImpl, on a plan whose input is a join
InputIsJoin == rule.join.type = "Join"

UnknownAggregate ==
    /\ InputIsJoin
    /\ \E i \in DOMAIN query.plan.aggregates :
           getClassOfAggFunc(query.plan.aggregates[i].function.name) = "UNKNOWN"

KeyOnNeitherSide ==
    /\ InputIsJoin
    /\ ~(Range(query.plan.keys) \subseteq (names_from_left \cup names_from_right))

ProjectionNotDecomposable ==
    /\ InputIsJoin
    /\ ~UnknownAggregate
    /\ ~KeyOnNeitherSide
    /\ rule.projection.type = "Projection"
    /\ ~DecomposedProjection.ok

CostGateRejectsAll == EveryCandidateRejected /\ rule.rejected # {}

\* C10 as stated: in each of the four refusal cases transformImpl returns
\* the empty transform result.
C10_RefusalReturnsEmpty ==
    (/\ rule.pc = "done"
     /\ \/ UnknownAggregate
        \/ KeyOnNeitherSide
        \/ ProjectionNotDecomposable
        \/ CostGateRejectsAll)
    => rule.returned = "empty"

\* C10, amended: transformImpl returns the empty transform result when an
\* aggregate is of class Unknown, a key comes from neither join input or the
\* projection cannot be decomposed; when the cost gate rejects every
\* candidate it returns a result that holds the input aggregation.
C10_RefusalReturnsEmptyOrInput ==
    rule.pc = "done" =>
        /\ (UnknownAggregate \/ KeyOnNeitherSide \/ ProjectionNotDecomposable)
               => rule.returned = "empty"
        /\ CostGateRejectsAll
               => rule.returned = "nodes" /\ rule.result = <<query.plan>>

C10_Witness ==
    /\ rule.pc = "done"
    /\ CostGateRejectsAll
    /\ rule.returned = "nodes"

\* ---- C12 ---------------------------------------------------------------
\* a name of the form inter#<name> or inter#<name>_<n>, <name> a symbol of
\* the plan the rule was applied to
MatchesInter(name) ==
    \E base \in SymbolsOf(query.plan) :
        name \in {"inter#" \o base, "inter#" \o base \o "_1"}

\* C12: every symbol the rewrite introduces (in decomposeProjection and in
\* doInsertAggregation) comes from the symbol allocator with the hint
\* inter#<name>: it matches inter#..., it is none of the symbols the subtree
\* had before, no two introduced symbols are equal, and every name of the
\* returned plan that the subtree did not have is one of them.
C12_IntroducedSymbolsAreFresh ==
    /\ \A i \in DOMAIN context.introduced :
           /\ MatchesInter(context.introduced[i])
           /\ context.introduced[i] \notin SymbolsOf(query.plan)
           /\ \A j \in DOMAIN context.introduced :
                  i # j => context.introduced[i] # context.introduced[j]
    /\ Range(context.introduced) \subseteq context.symbols
    /\ rule.returned = "nodes" =>
           SymbolsOf(rule.result[1]) \ SymbolsOf(query.plan)
               \subseteq Range(context.introduced)

\* the deep parse and the insertion both asked for inter#<name> of the same
\* name, and the returned plan carries the second symbol
C12_Witness ==
    /\ rule.returned = "nodes"
    /\ \E i, j \in DOMAIN context.introduced :
           /\ i < j
           /\ context.introduced[j] = context.introduced[i] \o "_1"
           /\ context.introduced[j] \in SymbolsOf(rule.result[1])

\* ---- C13 ---------------------------------------------------------------
\* the class the classifier is to give a function name
ClassOfName(name) ==
    IF name \in simple_aggregate_functions THEN "BASIC"
    ELSE IF name \in {"uniqExact", "count"} THEN "NEED_MERGE"
    ELSE "UNKNOWN"

\* C13: getClassOfAggFunc returns Basic for each of the 18 names of the
\* fixed set, NeedsMerge for uniqExact and count, and Unknown for every
\* other name: once decomposeAggregates has classified the aggregates of
\* the matched step, each has the class of its function's name.
C13_ClassOfListedNames ==
    rule.pc \notin {"match", "find_join", "decompose"} =>
        \A i \in DOMAIN query.plan.aggregates :
            getClassOfAggFunc(query.plan.aggregates[i].function.name)
                = ClassOfName(query.plan.aggregates[i].function.name)

\* ---- C14 ---------------------------------------------------------------
\* the matched step is Agg[sum(m)] over Proj{m := multiIf(a, x, y)} over a
\* join with x from the left and y from the right input
MultiIfOfBothSides ==
    /\ query.plan.children[1].type = "Projection"
    /\ "m" \in AssignmentNames(query.plan.children[1].assignments)
    /\ Len(query.plan.aggregates) = 1
    /\ query.plan.aggregates[1].function.name = "sum"
    /\ query.plan.aggregates[1].argument_names = <<"m">>

\* the local aggregates the returned plan has directly under the join's
\* input of this index
PushedUnder(index) ==
    LET join == rule.result[1].children[1].children[1]
    IN  IF join.type = "Join" /\ join.children[index].type = "Aggregating"
        THEN join.children[index].aggregates ELSE <<>>
\* C14: for Agg[sum(v)] over Proj{v := multiIf(cond, v1, v2)} over a join
\* with v1 from the left and v2 from the right input, the rewrite pushes
\* sum(v1) under the left input and sum(v2) under the right input, and the
\* projection stays above the join.
C14_MultiIfPushedToBothSides ==
    (MultiIfOfBothSides /\ rule.returned = "nodes" /\ rule.inserted # {}) =>
        /\ rule.result[1].children[1].type = "Projection"
        /\ rule.result[1].children[1].children[1].type = "Join"
        /\ \E i \in DOMAIN PushedUnder(1) :
               /\ PushedUnder(1)[i].function.name = "sum"
               /\ PushedUnder(1)[i].argument_names = <<"x">>
        /\ \E i \in DOMAIN PushedUnder(2) :
               /\ PushedUnder(2)[i].function.name = "sum"
               /\ PushedUnder(2)[i].argument_names = <<"y">>

\* ---- C15 ---------------------------------------------------------------
\* the aggregates of the Aggregating nodes the rewrite has inserted
RECURSIVE InsertedAggregates(_)
InsertedAggregates(node) ==
    (IF node.type = "Aggregating" /\ node.id >= FirstNodeId
     THEN Range(node.aggregates) ELSE {})
    \cup UNION {InsertedAggregates(node.children[i]) : i \in DOMAIN node.children}

\* C15: after a rewrite, every top aggregate that has become <name>Merge
\* takes as its argument a column that an inserted local aggregate produces
\* with <name>State of the same function, and every pushed NeedsMerge
\* aggregate is <name>State with an inter# output in the local aggregate and
\* <name>Merge over that output at the top.
C15_MergeOverStateOfSameFunction ==
    (rule.returned = "nodes" /\ rule.inserted # {}) =>
        LET top == rule.result[1].aggregates
            original == query.plan.aggregates
            local == InsertedAggregates(rule.result[1].children[1])
        IN  /\ \A i \in DOMAIN top :
                   ParseFunctionName(top[i].function.name)[2] = "Merge" =>
                       /\ getClassOfAggFunc(original[i].function.name) = "NEED_MERGE"
                       /\ top[i].function.name = getMergeName(original[i].function.name)
                       /\ \E l \in local :
                              /\ top[i].argument_names = <<l.column_name>>
                              /\ l.function.name
                                     = getStateName(original[i].function.name)
            /\ \A l \in local :
                   getClassOfAggFunc(ParseFunctionName(l.function.name)[1]) = "NEED_MERGE" =>
                       /\ ParseFunctionName(l.function.name)[2] = "State"
                       /\ MatchesInter(l.column_name)
                       /\ \E i \in DOMAIN top :
                              /\ top[i].function.name
                                     = ParseFunctionName(l.function.name)[1] \o "Merge"
                              /\ top[i].argument_names = <<l.column_name>>

\* a returned plan whose top aggregate merges the states of a local aggregate
C15_Witness ==
    /\ rule.returned = "nodes"
    /\ \E i \in DOMAIN rule.result[1].aggregates :
           /\ ParseFunctionName(rule.result[1].aggregates[i].function.name)[2] = "Merge"
           /\ \E l \in InsertedAggregates(rule.result[1].children[1]) :
                  rule.result[1].aggregates[i].argument_names = <<l.column_name>>

\* C23: for every matched plan and every candidate of determineBottomJoin that
\* canAggPushDown approves, doInsertAggregation returns a plan and raises no
\* exception (in particular no LOGICAL_ERROR), whatever projections and joins
\* lie on or beside the path from the top aggregate to the insertion point.
C23_InsertionReturnsPlan ==
    (rule.pc = "done" /\ rule.inserted # {}) => rule.returned = "nodes"

(***************************************************************************)
(* Properties of the cost gate                                             *)
(***************************************************************************)
Judged == gate.pc = "done"

\* the join of the candidate is on the block list
Blocked == ToString(gate.target.bottom_join.id) \in gate.settings.eager_agg_join_id_blocklist

\* neither the block list nor the allow list decides
ListsUndecided == ~Blocked /\ gate.settings.eager_agg_join_id_whitelist = {}

\* the group keys for which the estimator's answer has known statistics
KnownKeys ==
    SelectSeq(gate.target.keys, LAMBDA k :
        /\ k \in DOMAIN gate.bottom_stat.symbols
        /\ ~gate.bottom_stat.symbols[k].unknown)

\* the values in descending order
Descending(values) ==
    LET p == CHOOSE q \in [DOMAIN values -> DOMAIN values] :
                /\ \A i \in DOMAIN values : \E j \in DOMAIN values : q[j] = i
                /\ \A i, j \in DOMAIN values : i < j => values[q[i]] >= values[q[j]]
    IN  [i \in DOMAIN values |-> values[p[i]]]

\* the product over the first n values as a fraction: the largest as-is, each
\* further one as max(1, coefficient * value), coefficient in hundredths,
\* unless skipped as correlated
RECURSIVE ProductOfKeys(_, _, _, _)
ProductOfKeys(values, n, rows, coefficient) ==
    IF n = 0 THEN [num |-> 1, den |-> 1]
    ELSE IF n = 1 THEN [num |-> values[1], den |-> 1]
    ELSE LET before == ProductOfKeys(values, n - 1, rows, coefficient)
         IN  IF /\ rows > 1000000
                /\ before.num * values[n] > rows * before.den
                /\ values[n] * 1000 < values[1]
             THEN before
             ELSE [num |-> before.num * Max2(100, coefficient * values[n]),
                   den |-> before.den * 100]

\* child_row_count / predicted > threshold, predicted the product clamped to
\* child_row_count
RatioAboveThreshold(values) ==
    LET rows == gate.bottom_stat.row_count
        product == ProductOfKeys(Descending(values), Len(values), rows,
                                 gate.settings.multi_agg_keys_correlated_coefficient)
        predicted == IF product.num <= rows * product.den THEN product
                     ELSE [num |-> rows, den |-> 1]
    IN  rows * predicted.den > gate.settings.agg_push_down_threshold * predicted.num

\* the cost check decides on statistics of at least one key
CostCheckDecides ==
    /\ Judged
    /\ ListsUndecided
    /\ gate.bottom_stat.known
    /\ KnownKeys # <<>>

\* the NDV of the keys with known statistics
NdvOfKeys == [i \in DOMAIN KnownKeys |-> gate.bottom_stat.symbols[KnownKeys[i]].ndv]

\* the number of values of the keys with known statistics and a positive NDV:
\* the NDV, and one more when the key has nulls
ValueCountsOfKeys ==
    LET counted == SelectSeq(KnownKeys, LAMBDA k : gate.bottom_stat.symbols[k].ndv > 0)
    IN  [i \in DOMAIN counted |->
            gate.bottom_stat.symbols[counted[i]].ndv
            + (IF gate.bottom_stat.symbols[counted[i]].nulls_count > 0 THEN 1 ELSE 0)]

\* C24: when neither list decides and the estimator knows statistics for at
\* least one group key, the push is approved if and only if child_row_count /
\* predicted > agg_push_down_threshold, predicted being the product over the
\* keys in descending-NDV order (largest NDV as-is, each further key
\* max(1, coefficient * ndv) unless skipped as correlated) clamped to
\* child_row_count.
C24_ApprovedIffRatioOfNdvProduct ==
    CostCheckDecides => (gate.approved <=> RatioAboveThreshold(NdvOfKeys))

\* C24 (amended): under the same condition the push is approved if and only
\* if only_push_agg_with_functions is off or the candidate has an aggregate,
\* child_row_count is positive, and child_row_count / predicted >
\* agg_push_down_threshold, where the product runs over the keys with a
\* positive NDV and a key with nulls counts NDV + 1.
C24_ApprovedIffRatioOfValueCounts ==
    CostCheckDecides
       => (gate.approved
             <=> /\ ~(gate.settings.only_push_agg_with_functions /\ gate.target.aggs = <<>>)
                 /\ gate.bottom_stat.row_count > 0
                 /\ RatioAboveThreshold(ValueCountsOfKeys))

\* C24 witness: a candidate with two counted keys, one of them with nulls, is
\* approved against a positive threshold with a coefficient below one
C24_Witness ==
    /\ CostCheckDecides
    /\ gate.approved
    /\ Len(ValueCountsOfKeys) >= 2
    /\ \E k \in Range(KnownKeys) : gate.bottom_stat.symbols[k].nulls_count > 0
    /\ gate.settings.agg_push_down_threshold > 0
    /\ gate.settings.multi_agg_keys_correlated_coefficient < 100

\* the candidate's join_id-child_index is on the allow list
AllowListed ==
    (ToString(gate.target.bottom_join.id) \o "-"
        \o ToString(gate.target.bottom_join_child_index))
       \in gate.settings.eager_agg_join_id_whitelist

\* C25: the block and allow lists take precedence over the cost check: a
\* candidate whose join id is on the block list is rejected whatever the allow
\* list and the statistics say; otherwise, if the allow list is not empty, the
\* candidate is approved exactly when join_id-child_index is listed, whatever
\* the statistics and the threshold.
C25_ListsDecideBeforeCost ==
    Judged
       => /\ Blocked => ~gate.approved
          /\ (~Blocked /\ gate.settings.eager_agg_join_id_whitelist # {})
                => (gate.approved <=> AllowListed)

\* C25 witness: an allow-listed candidate is approved although the estimator
\* answered nothing and the threshold is positive
C25_Witness ==
    /\ Judged
    /\ ~Blocked
    /\ AllowListed
    /\ gate.approved
    /\ ~gate.bottom_stat.known
    /\ gate.settings.agg_push_down_threshold > 0

\* the estimator returned nothing, or statistics in which no group key is known
WhollyUnknown == ~gate.bottom_stat.known \/ KnownKeys = <<>>

\* C26: if statistics are wholly unknown for a candidate (the estimator
\* returns nothing, or statistics in which no group key has known statistics),
\* the push is approved only when agg_push_down_threshold is zero, and is
\* approved when the threshold is zero.
C26_UnknownApprovedIffThresholdZero ==
    (Judged /\ WhollyUnknown)
       => (gate.approved <=> gate.settings.agg_push_down_threshold = 0)

\* C26 (amended): when neither list decides, a candidate for which the
\* estimator returns nothing is approved exactly when the threshold is zero,
\* and a candidate for which it returns statistics in which no group key is
\* known is rejected whatever the threshold.
C26_NoAnswerIffThresholdZeroUnknownKeysRejected ==
    (Judged /\ ListsUndecided)
       => /\ ~gate.bottom_stat.known
                => (gate.approved <=> gate.settings.agg_push_down_threshold = 0)
          /\ (gate.bottom_stat.known /\ KnownKeys = <<>>) => ~gate.approved

\* C26 witness: a candidate with keys, none of them known to the statistics
\* returned, is rejected with a threshold of zero
C26_Witness ==
    /\ Judged
    /\ ListsUndecided
    /\ gate.bottom_stat.known
    /\ gate.bottom_stat.row_count > 0
    /\ gate.target.keys # <<>>
    /\ KnownKeys = <<>>
    /\ gate.settings.agg_push_down_threshold = 0
    /\ ~gate.approved

\* the candidates recorded by the bottom-join finder, as (join id, child index)
RecordedCandidates ==
    {<<id, rule.target_map[id].bottom_join_child_index>> : id \in DOMAIN rule.target_map}

\* C27: at every join visited by the bottom-join finder the left child is
\* explored first and the right child only if the exploration of the left
\* child recorded no candidate; the recorded candidate is the leftmost-deepest
\* valid one: the last child explored, every exploration before it having
\* recorded nothing.
C27_LeftFirstRightOnlyIfLeftRecordedNothing ==
    LET explored == rule.explored
    IN  /\ \A i \in DOMAIN explored : explored[i].recorded = 0
        /\ \A i, j \in DOMAIN explored :
              (i < j /\ explored[i].join = explored[j].join)
                 => explored[i].index = 0 /\ explored[j].index = 1
        /\ RecordedCandidates
              \subseteq {<<explored[Len(explored)].join, explored[Len(explored)].index>>
                            : i \in {1} \cap DOMAIN explored}

\* C27 witness: the left child of a join was explored and recorded nothing,
\* and the candidate recorded is the right child of that join
C27_Witness ==
    \E i, j \in DOMAIN rule.explored :
        /\ i < j
        /\ rule.explored[i].join = rule.explored[j].join
        /\ rule.explored[i].index = 0
        /\ <<rule.explored[j].join, 1>> \in RecordedCandidates

\* the nodes of a plan
RECURSIVE NodesOf(_)
NodesOf(node) ==
    {node} \cup UNION {NodesOf(node.children[i]) : i \in DOMAIN node.children}

NumberOfAggregating(node) ==
    Cardinality({n \in NodesOf(node) : n.type = "Aggregating"})

\* the rule returned a plan after doInsertAggregation
ReturnedAfterInsertion == rule.returned = "nodes" /\ rule.inserted # {}

\* C28: determineBottomJoin returns at most one candidate (join id, child
\* index), so the loop of transformImpl over the candidates inserts at most
\* one local aggregate per application of the rule.
C28_AtMostOneCandidateAndOneInsertion ==
    /\ Cardinality(DOMAIN rule.target_map) <= 1
    /\ Cardinality(rule.inserted) <= 1
    /\ rule.returned = "nodes"
          => NumberOfAggregating(rule.result[1]) <= NumberOfAggregating(query.plan) + 1

\* C28 witness: a plan with two joins below the aggregate was rewritten and
\* has one Aggregating node more than before
C28_Witness ==
    /\ ReturnedAfterInsertion
    /\ Cardinality({n \in NodesOf(query.plan) : n.type = "Join"}) = 2
    /\ NumberOfAggregating(rule.result[1]) = NumberOfAggregating(query.plan) + 1

\* the child a recorded candidate chooses
ChosenChild(id) ==
    rule.target_map[id].bottom_join.children[rule.target_map[id].bottom_join_child_index + 1]

\* C29: when only an aggregate is pushed (no projection is pushed with it),
\* the bottom-join finder never records a candidate whose chosen child is
\* already an Aggregating node.
C29_NoCandidateAboveAggregation ==
    rule.projection_require_symbols = {}
       => \A id \in DOMAIN rule.target_map : ChosenChild(id).type # "Aggregating"

\* the candidate the rewrite was applied to, with its join before the rewrite
\* and after it
InsertedTarget == rule.target_map[CHOOSE id \in rule.inserted : TRUE]

JoinAfter ==
    CHOOSE n \in NodesOf(rule.result[1]) : n.id = InsertedTarget.bottom_join.id

NodeAtPosition == JoinAfter.children[InsertedTarget.bottom_join_child_index + 1]

OriginalChild ==
    InsertedTarget.bottom_join.children[InsertedTarget.bottom_join_child_index + 1]

\* the node at the chosen position is a new Aggregating node with keys g1
\* directly above the original child, or above a new projection over it when
\* a projection is pushed; one Aggregating node was added
LocalAggregateInPlace ==
    /\ NodeAtPosition.type = "Aggregating"
    /\ NodeAtPosition.id >= FirstNodeId
    /\ NodeAtPosition.keys = InsertedTarget.keys
    /\ IF rule.projection_require_symbols # {}
       THEN /\ NodeAtPosition.children[1].type = "Projection"
            /\ NodeAtPosition.children[1].id >= FirstNodeId
            /\ NodeAtPosition.children[1].children[1] = OriginalChild
       ELSE NodeAtPosition.children[1] = OriginalChild
    /\ NumberOfAggregating(rule.result[1]) = NumberOfAggregating(query.plan) + 1

\* C30: in the plan returned by doInsertAggregation the join bottom_join_id
\* has at position bottom_join_child_index a new Aggregating node with group
\* keys g1 and the pushed aggregates s1, whose child is the original child at
\* that position (or, when a projection is pushed, a new projection whose
\* child is that original child); exactly one Aggregating node is added.
C30_LocalAggregateWithS1InPlace ==
    ReturnedAfterInsertion
       => /\ LocalAggregateInPlace
          /\ NodeAtPosition.aggregates = InsertedTarget.aggs

\* C30 (amended): the same, the aggregates of the new node being those of s1
\* in s1's order, each over the same arguments, with the State variant of the
\* function for uniqExact and count, and with its output column renamed to
\* an intermediate symbol when its argument is not a group key and no earlier
\* aggregate of s1 has the same argument.
C30_LocalAggregateWithRenamedS1InPlace ==
    ReturnedAfterInsertion
       => /\ LocalAggregateInPlace
          /\ LET s1 == InsertedTarget.aggs
                 local == NodeAtPosition.aggregates
             IN  /\ Len(local) = Len(s1)
                 /\ \A i \in DOMAIN s1 :
                       /\ local[i].argument_names = s1[i].argument_names
                       /\ local[i].function.name =
                             IF getClassOfAggFunc(s1[i].function.name) = "NEED_MERGE"
                             THEN s1[i].function.name \o "State"
                             ELSE s1[i].function.name
                       /\ local[i].column_name \in
                             IF /\ ~(Range(s1[i].argument_names)
                                        \subseteq Range(InsertedTarget.keys))
                                /\ \A j \in 1..(i - 1) :
                                       s1[j].argument_names # s1[i].argument_names
                             THEN Range(context.introduced)
                             ELSE {s1[i].column_name}

\* C30 witness: a local aggregate with keys and a pushed aggregate was placed
\* above a new projection over the original child
C30_Witness ==
    /\ ReturnedAfterInsertion
    /\ rule.projection_require_symbols # {}
    /\ InsertedTarget.aggs # <<>>
    /\ NodeAtPosition.type = "Aggregating"
    /\ NodeAtPosition.children[1].type = "Projection"

\* ---- C31 ---------------------------------------------------------------
\* the nodes of the input plan that have the bottom join of the inserted
\* target below them or are that join: the path of the rewrite
PathNodes ==
    {n \in NodesOf(query.plan) :
        \E m \in NodesOf(n) : m.id = InsertedTarget.bottom_join.id}

PathJoins == {n \in PathNodes : n.type = "Join"}

\* the node of the returned plan with this id
Rewritten(id) == CHOOSE n \in NodesOf(rule.result[1]) : n.id = id

\* the top aggregate keeps its id, keys, unhashed keys, finality and columns
TopAggregateKept ==
    LET before == query.plan
        after == rule.result[1]
    IN  /\ after.type = "Aggregating"
        /\ after.id = before.id
        /\ after.keys = before.keys
        /\ after.keys_not_hashed = before.keys_not_hashed
        /\ after.final = before.final
        /\ [i \in DOMAIN after.aggregates |-> after.aggregates[i].column_name]
              = [i \in DOMAIN before.aggregates |-> before.aggregates[i].column_name]

\* every join on the path is in the returned plan under its id, with its
\* kind, strictness, algorithm, distribution type and hints
PathJoinsKept ==
    \A n \in PathJoins :
        /\ \E m \in NodesOf(rule.result[1]) : m.id = n.id
        /\ Rewritten(n.id).type = "Join"
        /\ Rewritten(n.id).step = n.step

\* the child of the bottom join that was not chosen is the original node
OtherChildKept ==
    LET other == 2 - InsertedTarget.bottom_join_child_index
    IN  JoinAfter.children[other] = InsertedTarget.bottom_join.children[other]

\* every child of a join on the path that is itself not on the path is the
\* original node
OffPathKept ==
    \A n \in PathJoins : \A i \in DOMAIN n.children :
        (n.id # InsertedTarget.bottom_join.id /\ n.children[i] \notin PathNodes)
           => Rewritten(n.id).children[i] = n.children[i]

\* C31: doInsertAggregation leaves unchanged everything it does not have to
\* touch: the top aggregate and every join on the path keep their node ids;
\* the top aggregate keeps its keys, unhashed keys, finality and output
\* column names; each join keeps kind, strictness, algorithm, distribution
\* type and hints; the other child of the bottom join, like every subtree
\* off the path, is the identical original node.
C31_UntouchedPartsKept ==
    ReturnedAfterInsertion
       => /\ TopAggregateKept
          /\ PathJoinsKept
          /\ OtherChildKept
          /\ OffPathKept

\* ---- C32 ---------------------------------------------------------------
\* two aggregates of the inserted target have the same argument
SharedArgument ==
    \E i, j \in DOMAIN InsertedTarget.aggs :
        /\ i # j
        /\ InsertedTarget.aggs[i].argument_names # <<>>
        /\ InsertedTarget.aggs[i].argument_names = InsertedTarget.aggs[j].argument_names

\* the aggregates of the local aggregate have pairwise different columns
OwnLocalColumns ==
    LET local == NodeAtPosition.aggregates
    IN  \A i, j \in DOMAIN local : i # j => local[i].column_name # local[j].column_name

\* a top aggregate that reads a column of the local aggregate reads the one
\* produced by its own function (or by the State variant of it)
TopReadsOwnFunction ==
    LET local == NodeAtPosition.aggregates
        before == query.plan.aggregates
        after == rule.result[1].aggregates
    IN  \A i \in DOMAIN after : \A j \in DOMAIN local :
            local[j].column_name \in Range(after[i].argument_names)
               => local[j].function.name
                     \in {before[i].function.name, getStateName(before[i].function.name)}

\* C32: when two pushed aggregates have the same argument, each of them gets
\* its own output column in the local aggregate and, after the rewrite, each
\* top aggregate reads the column produced by the local aggregate of its own
\* function; no top aggregate reads the intermediate column of another
\* function.
C32_SharedArgumentOwnIntermediateColumns ==
    (ReturnedAfterInsertion /\ SharedArgument)
       => (OwnLocalColumns /\ TopReadsOwnFunction)

\* ---- C33 ---------------------------------------------------------------
\* what the sender writes and accumulates for the request of the scenario
ScenarioSend ==
    sendPartFromDisk(scenario.part,
                     IF OldVersionPart(scenario) # NoPart
                       THEN <<getSerializedString(scenario.old.checksums)>> ELSE <<>>,
                     OldVersionPart(scenario) # NoPart,
                     DOMAIN scenario.part.projections, scenario.read_at_eof)

HonestFetchCompleted == Completed /\ scenario.peer = "honest"

\* no file frame carries a file with the compression-data / -marks suffix
NoCompressionFrames ==
    \A i \in DOMAIN ScenarioSend.out :
        ScenarioSend.out[i].k = "file"
           => ~endsWithCompressionExtension(ScenarioSend.out[i].name)

CompressionEntries(part) ==
    {n \in DOMAIN part.checksums : endsWithCompressionExtension(n)}

CompressionEntriesInSendersManifest ==
    CompressionEntries(scenario.part) \subseteq DOMAIN ScenarioSend.data_checksums

CompressionEntriesInReceiversManifest ==
    CompressionEntries(scenario.part) \subseteq DOMAIN fetch.checksums

\* C33: files with the compression-data / compression-marks suffix are never
\* sent as file frames, and their checksum entries are present in both the
\* sender's and the receiver's verification manifest, so that at the end of a
\* successful fetch the manifest the receiver accumulated equals the one the
\* sender accumulated.
C33_CompressionEntriesInBothManifests ==
    HonestFetchCompleted
       => /\ NoCompressionFrames
          /\ CompressionEntriesInSendersManifest
          /\ CompressionEntriesInReceiversManifest
          /\ fetch.checksums = ScenarioSend.data_checksums

\* ---- C39 ---------------------------------------------------------------
\* the tokens written for the projection named n: from its name up to the
\* next projection's name or the file count of the part's own directory
ProjectionTokens(out, n) ==
    LET start == CHOOSE i \in DOMAIN out : out[i] = NameToken(n)
        base == Len(out) - Len(BaseTokens(out)) + 1
        later == {j \in DOMAIN out : j > start /\ (out[j].k = "name" \/ j = base)}
    IN  SubSeq(out, start + 1, (CHOOSE j \in later : \A k \in later : j <= k) - 1)

SkipNames(tokens) == {tokens[i].name : i \in {j \in DOMAIN tokens : tokens[j].k = "skip"}}

\* the files of a (sub-)part that can be skip-copied against a prior manifest
Unchanged(checksums, prior) ==
    {n \in DOMAIN checksums :
        ~endsWithCompressionExtension(n) /\ isEqual(checksums, prior, n)}

\* the prior manifest of the projection n: that of the prior part's projection
PriorOfProjection(old, n) ==
    IF n \in DOMAIN old.projections THEN old.projections[n].checksums
    ELSE EmptyChecksums

\* every (sub-)part's skip-copy entries are its files with an equal entry in
\* the prior manifest of the same (sub-)part
SkipCopyAgainstOwnPrior ==
    LET out == IncrementalSend.out
        part == scenario.part
    IN  /\ SkipNames(BaseTokens(out))
              = Unchanged([n \in OwnEntries(part) |-> part.checksums[n]],
                          scenario.old.checksums)
        /\ \A n \in DOMAIN part.projections :
              SkipNames(ProjectionTokens(out, n))
                 = Unchanged(part.projections[n].checksums,
                             PriorOfProjection(scenario.old, n))

\* a file in a projection directory of the download directory that is a hard
\* link of a file of the prior part is a link of the file with the same name
\* in the same projection directory of the prior part
ProjectionLinksFromOwnDirectory ==
    \A q \in DOMAIN disk.files : \A r \in DOMAIN disk.files :
        (/\ startsWith(q, DownloadDir)
         /\ Len(q) = Len(DownloadDir) + 2
         /\ startsWith(r, OldPartPath)
         /\ disk.files[q].ino = disk.files[r].ino)
           => SubSeq(r, Len(OldPartPath) + 1, Len(r))
                 = SubSeq(q, Len(DownloadDir) + 1, Len(q))

\* C39: in an incremental fetch of a part that has projections the
\* prior-version checksums of the request body are read once and used for the
\* base part; each (sub-)part's skip-copy decisions compare that (sub-)part's
\* files with the prior manifest of the same (sub-)part, and the receiver
\* hard-links each skip-copy file of a projection from the matching
\* projection directory of its prior local part.
C39_SkipCopyPerSubPart ==
    (IncrementalSendReturned /\ scenario.part.projections # <<>>)
       => (SkipCopyAgainstOwnPrior /\ ProjectionLinksFromOwnDirectory)

\* ---- C35 ---------------------------------------------------------------
\* the part stream of the response holds a skip-copy section
ServerWroteSkipCopy ==
    \E i \in DOMAIN exchange.http.response.out :
        exchange.http.response.out[i] = Field("part_from_disk", "skip_copy")

RequestedIncrementally ==
    get(exchange.http.params, "fetch_part_incrementally", "false") = "true"

IncrementalCookie ==
    get(exchange.http.response.cookies, "fetch_part_incrementally", "false")

\* the fetcher has read the cookies of the response of this request
CookiesRead ==
    /\ exchange.http.pc = "response"
    /\ exchange.http.response.status = 200
    /\ exchange.fetcher.pc \notin {"wait", "cookies"}

\* the fetch has reached the part stream and both replicas run this code:
\* fetchPart sends client_protocol_version =
\* REPLICATION_PROTOCOL_VERSION_WITH_PARTS_PROJECTION
HonestDownload ==
    /\ exchange.server.peer = "honest"
    /\ exchange.client.client_protocol_version
          = REPLICATION_PROTOCOL_VERSION_WITH_PARTS_PROJECTION
    /\ exchange.fetcher.download \in {"downloadPartToDisk", "downloadPartToMemory"}

\* C35: the receiver parses a skip-copy section in the part stream iff the
\* server wrote one; the server writes it exactly when the request carried
\* fetch_part_incrementally=true and it sends a part from disk, and then echoes
\* the parameter in the fetch_part_incrementally cookie; the client asks for it
\* only when it holds a prior version of the part, and it forgets the prior
\* part when the cookie is absent or "false".
C35_SkipCopyParsedIffWritten ==
    /\ HonestDownload
          => (ParsesSkipCopy(exchange.fetcher) <=> ServerWroteSkipCopy)
    /\ (exchange.server.peer = "honest" /\ exchange.http.pc = "response"
           /\ exchange.http.response.status = 200)
          => /\ ServerWroteSkipCopy
                   <=> /\ RequestedIncrementally
                       /\ \E i \in DOMAIN exchange.http.response.out :
                             exchange.http.response.out[i].field = "part_from_disk"
             /\ (IncrementalCookie = "true") <=> RequestedIncrementally
    /\ (exchange.http.pc # "idle" /\ RequestedIncrementally)
          => exchange.client.old_version_part
    /\ (CookiesRead /\ IncrementalCookie = "false")
          => ~exchange.fetcher.old_version_part

\* an incremental fetch from disk: the section is written and parsed
C35_Witness ==
    /\ HonestDownload
    /\ ServerWroteSkipCopy
    /\ ParsesSkipCopy(exchange.fetcher)

\* a replica that does not echo the cookie makes the client forget its part
C35_WitnessForgotten ==
    /\ CookiesRead
    /\ IncrementalCookie = "false"
    /\ RequestedIncrementally
    /\ exchange.client.old_version_part
    /\ ~exchange.fetcher.old_version_part

\* ---- C36 ---------------------------------------------------------------
\* every projection, skip-copy entry and file the stream announced has been
\* accepted, and assertEOF has returned
StreamReceivedAndVerified ==
    /\ materialize.projections = 0
    /\ materialize.level = "base"
    /\ materialize.skip_copy_files = 0
    /\ materialize.files = 0
    /\ materialize.received = materialize.announced
    /\ materialize.eof

\* C36: the receiver calls data.createPart only after every announced
\* projection and file has been received with a matching hash and the end of
\* the stream has been verified; a fetch that fails or is cancelled before
\* that point creates no part object (downloadPartToDisk and downloadPartToS3).
C36_PartCreatedOnlyAfterVerifiedStream ==
    /\ materialize.part => StreamReceivedAndVerified
    /\ (materialize.pc = "done" /\ ~StreamReceivedAndVerified) => ~materialize.part

\* downloadPartToDisk creates the part after a projection and files
C36_Witness ==
    /\ materialize.function = "downloadPartToDisk"
    /\ materialize.part
    /\ materialize.received >= 2
    /\ materialize.error = "none"

C36_WitnessS3 ==
    /\ materialize.function = "downloadPartToS3"
    /\ materialize.part
    /\ materialize.received >= 2

\* a fetch cancelled after a file was accepted leaves no part object
C36_WitnessCancelled ==
    /\ materialize.pc = "done"
    /\ materialize.error = "ABORTED"
    /\ materialize.received >= 1
    /\ ~materialize.part

\* ---- C34 ---------------------------------------------------------------
\* the directory a sent frame belongs to, as the receiver names it
DirectoryName(index) ==
    IF stream.part.directories[index].name = "" THEN ""
    ELSE ProjDir(stream.part.directories[index].name)

\* the frames were sent directory by directory, the part's own directory
\* last, and a directory was left only when all its files had been sent
SentByDirectory ==
    /\ \A i \in DOMAIN stream.sent : \A j \in DOMAIN stream.sent :
          i < j => stream.sent[i].directory <= stream.sent[j].directory
    /\ \A d \in 1..(stream.s.index - 1) :
          Cardinality({i \in DOMAIN stream.sent : stream.sent[i].directory = d})
             = Cardinality(FramesOf(stream.part.directories[d]))

\* the frames were accepted in the order sent, so no frame of a projection
\* follows a frame of the part's own directory or of a later projection
ReceivedByDirectory ==
    /\ Len(stream.received) <= Len(stream.sent)
    /\ \A i \in DOMAIN stream.received :
          stream.received[i] = DirectoryName(stream.sent[i].directory)
    /\ \A i \in DOMAIN stream.received : \A j \in DOMAIN stream.received :
          (i < j /\ stream.received[i] = "") => stream.received[j] = ""

SentByFileOffset ==
    stream.part.enable_compact_map_data =>
        \A i \in DOMAIN stream.sent : \A j \in DOMAIN stream.sent :
            (i < j /\ stream.sent[i].directory = stream.sent[j].directory)
               => stream.sent[i].file_offset <= stream.sent[j].file_offset

\* C34: within one exchange all projection sub-parts are sent and received
\* before any file of the base part, each projection's files being complete
\* before the next projection starts; with compact map data the file frames of
\* a (sub-)part are sent in ascending file_offset order.
C34_FramesOrdered ==
    /\ SentByDirectory
    /\ ReceivedByDirectory
    /\ SentByFileOffset

\* a part with two projections whose keys lie in the shared file in another
\* order than their names has been sent and received whole
C34_Witness ==
    /\ stream.s.pc = "done" /\ stream.s.error = "none"
    /\ stream.r.pc = "done" /\ stream.r.error = "none"
    /\ stream.part.enable_compact_map_data
    /\ Len(stream.part.directories) = 3
    /\ \E i \in DOMAIN stream.sent :
          stream.sent[i].directory = 3 /\ stream.sent[i].file_offset = 2

\* ---- C37 ---------------------------------------------------------------
\* the sender has handled a file frame / the receiver has handled one
SenderHandledFrame == stream.s.frame.outcome # "none"

ReceiverHandledFrame == stream.r.frame.outcome # "none"

\* the receiver read the announced number of bytes of a frame that was sent whole
ReadWhole ==
    /\ ReceiverHandledFrame
    /\ stream.r.frame.outcome # "ATTEMPT_TO_READ_AFTER_EOF"
    /\ stream.r.frame.read = stream.r.frame.size

\* a frame is completed only with the announced number of bytes, and accepted
\* only with the hash of the bytes read
CompletedAndAcceptedOnlyWhenChecked ==
    /\ stream.s.frame.outcome = "completed" => stream.s.frame.count = stream.s.frame.size
    /\ stream.r.frame.outcome = "accepted"
          => /\ stream.r.frame.read = stream.r.frame.size
             /\ stream.r.frame.hash = stream.r.frame.computed

\* the frame that failed its check left no entry in the receiver's manifest
NothingAddedOnMismatch ==
    (ReadWhole /\ stream.r.frame.hash # stream.r.frame.computed)
       => stream.r.frame.name \notin DOMAIN stream.r.checksums

\* the statement of the claim: a size that differs always ends in
\* BAD_SIZE_OF_FILE_IN_DATA_PART, a hash that differs in CHECKSUM_DOESNT_MATCH
C37_FrameChecksFailWithTheirCodes ==
    /\ CompletedAndAcceptedOnlyWhenChecked
    /\ NothingAddedOnMismatch
    /\ (SenderHandledFrame /\ stream.s.frame.count # stream.s.frame.size)
          => stream.s.error = "BAD_SIZE_OF_FILE_IN_DATA_PART"
    /\ (ReadWhole /\ stream.r.frame.hash # stream.r.frame.computed)
          => stream.r.error = "CHECKSUM_DOESNT_MATCH"

\* C37: for every file frame the sender completes the frame normally only if
\* the number of bytes it wrote equals the size it announced; otherwise it fails
\* with BAD_SIZE_OF_FILE_IN_DATA_PART, or with ABORTED when the sends were
\* cancelled. The receiver accepts the file only if the hash it computes over
\* the announced number of bytes equals the hash sent after them; otherwise it
\* fails with CHECKSUM_DOESNT_MATCH, or with ABORTED when the fetches were
\* cancelled, and adds nothing to its manifest.
C37_FrameChecksOrAborted ==
    /\ CompletedAndAcceptedOnlyWhenChecked
    /\ NothingAddedOnMismatch
    /\ (SenderHandledFrame /\ stream.s.frame.count # stream.s.frame.size)
          => stream.s.error = IF stream.sender_cancelled THEN "ABORTED"
                              ELSE "BAD_SIZE_OF_FILE_IN_DATA_PART"
    /\ (ReadWhole /\ stream.r.frame.hash # stream.r.frame.computed)
          => stream.r.error = IF stream.receiver_cancelled THEN "ABORTED"
                              ELSE "CHECKSUM_DOESNT_MATCH"

\* a frame with a wrong hash was refused after an earlier frame was accepted
C37_Witness ==
    /\ stream.r.error = "CHECKSUM_DOESNT_MATCH"
    /\ stream.r.frame.read = stream.r.frame.size
    /\ stream.r.frame.hash # stream.r.frame.computed
    /\ stream.received # <<>>

\* the sender read fewer bytes of the shared file than the manifest says
C37_WitnessBadSize ==
    /\ stream.s.error = "BAD_SIZE_OF_FILE_IN_DATA_PART"
    /\ stream.s.frame.count < stream.s.frame.size
    /\ ~stream.sender_cancelled

C37_WitnessAborted ==
    /\ stream.s.error = "ABORTED"
    /\ stream.s.frame.count < stream.s.frame.size

\* ---- C38 ---------------------------------------------------------------
\* the file on the receiver's disk a frame was written to
WrittenFile == stream.r.disk[<<stream.r.frame.directory, stream.r.frame.file>>]

\* the last accepted frame: a map-key stream was appended to the shared file
\* and has the size of the file before the append as its file_offset; any
\* other file holds the frame's bytes only and has file_offset 0
AcceptedFrameRecorded ==
    stream.r.frame.outcome = "accepted" =>
        LET f == stream.r.frame
        IN  /\ f.append <=> (stream.r.enable_compact_map_data /\ isMapImplicitKey(f.name))
            /\ f.append => f.file = getMapFileNameFromImplicitFileName(f.name)
            /\ Len(WrittenFile) = (IF f.append THEN f.before ELSE 0) + f.size
            /\ (f.directory = stream.r.directory /\ f.name \in DOMAIN stream.r.checksums)
                  => stream.r.checksums[f.name].file_offset
                        = IF f.append THEN f.before ELSE 0

\* the ranges of the streams appended to one shared file follow one another
\* from offset 0 in arrival order
Contiguous(checksums, appended) ==
    \A i \in DOMAIN appended :
        checksums[appended[i]].file_offset
           = IF i = 1 THEN 0
             ELSE checksums[appended[i - 1]].file_offset
                  + checksums[appended[i - 1]].file_size

\* every file that is not an appended stream is recorded at offset 0
OthersAtOffsetZero(checksums, appended) ==
    \A n \in DOMAIN checksums \ Range(appended) : checksums[n].file_offset = 0

\* C38: with compact map data the receiver appends every implicit map-key
\* stream to the shared map file and records the size of that file just before
\* the append as the stream's file_offset, so the recorded ranges of the
\* streams sharing one file are disjoint and contiguous from 0 in arrival
\* order; every other file is rewritten from offset 0.
C38_AppendedStreamsContiguous ==
    /\ AcceptedFrameRecorded
    /\ Contiguous(stream.r.checksums, stream.r.appended)
    /\ OthersAtOffsetZero(stream.r.checksums, stream.r.appended)
    /\ \A i \in DOMAIN stream.r.manifests :
          /\ Contiguous(stream.r.manifests[i].checksums, stream.r.manifests[i].appended)
          /\ OthersAtOffsetZero(stream.r.manifests[i].checksums,
                                stream.r.manifests[i].appended)

\* two streams were appended, the second one at the end of the first, in
\* another order than that of their names
C38_Witness ==
    /\ stream.r.pc = "done" /\ stream.r.error = "none"
    /\ stream.r.appended = <<"__m__k2.bin", "__m__k1.bin">>
    /\ stream.r.checksums["__m__k1.bin"].file_offset = 2
    /\ stream.r.disk[<<"", "m.bin">>] = <<2, 3, 1>>

\* a key whose neighbour was cleared on the sender (where it lies at offset 1)
\* is received at offset 0
C38_WitnessCleared ==
    /\ stream.r.pc = "done" /\ stream.r.error = "none"
    /\ stream.r.appended = <<"__m__k2.bin">>
    /\ stream.r.checksums["__m__k2.bin"].file_offset = 0
    /\ stream.sent[Len(stream.sent)].file_offset = 1

====
